---- MODULE Spec2Model ----
(***************************************************************************)
(* Token-group wallet engine of src/src/tokens/tokengroupwallet.cpp:       *)
(* script encoding, balance/authority aggregation, coin selection,         *)
(* ConstructTx and the RPC operations built on it.                         *)
(*                                                                         *)
(* CAmount is a signed 64-bit integer in the program.  The model keeps     *)
(* the two's complement structure at a smaller width, AmountBits: the top  *)
(* bit of a quantity word is CTRL, the next five bits are the other        *)
(* authority flags, exactly as bits 63..58 of the program's word.          *)
(***************************************************************************)
EXTENDS Integers, Sequences, FiniteSets, TLC

\* ------------------------------------------------------------------ bounds
AmountBits == 12          \* width of CAmount / uint64_t in the model
MaxWallet == 3            \* coins in an initial wallet
MaxOps == 1               \* wallet operations in one behaviour
MaxSel == 3               \* coins handed to a selection function

\* ------------------------------------------------------------ CAmount words
Pow2(n) == 2 ^ n
WordMod == Pow2(AmountBits)
MaxAmount == Pow2(AmountBits - 1) - 1      \* std::numeric_limits<CAmount>::max()
MinAmount == 0 - Pow2(AmountBits - 1)

\* the value a two's complement register holds after an addition
Wrap(x) == ((x + Pow2(AmountBits - 1)) % WordMod) - Pow2(AmountBits - 1)
Overflows(x) == x > MaxAmount \/ x < MinAmount
\* (uint64_t) q
ToUnsigned(q) == IF q < 0 THEN q + WordMod ELSE q
\* (CAmount) u
ToSigned(u) == IF u >= Pow2(AmountBits - 1) THEN u - WordMod ELSE u

\* ------------------------------------------------------ GroupAuthorityFlags
CTRL == Pow2(AmountBits - 1)
MINT == Pow2(AmountBits - 2)
MELT == Pow2(AmountBits - 3)
CCHILD == Pow2(AmountBits - 4)
RESCRIPT == Pow2(AmountBits - 5)
SUBGROUP == Pow2(AmountBits - 6)
NONE == 0
ALL == CTRL + MINT + MELT + CCHILD + RESCRIPT + SUBGROUP
\* the bits reserved for flags (0xffff << 48 in the program): here the six top bits, the
\* ones the flags occupy
ALL_BITS == WordMod - Pow2(AmountBits - 6)

HasBit(u, b) == (u \div b) % 2 = 1
RECURSIVE BitAndFrom(_, _, _)
BitAndFrom(a, b, bit) ==
    IF bit > a \/ bit > b THEN 0
    ELSE (IF HasBit(a, bit) /\ HasBit(b, bit) THEN bit ELSE 0) + BitAndFrom(a, b, 2 * bit)
BitAnd(a, b) == BitAndFrom(a, b, 1)
BitOr(a, b) == a + b - BitAnd(a, b)
BitNot(a) == (WordMod - 1) - a
hasCapability(object, capability) == BitAnd(object, capability) = capability

\* ----------------------------------------------------------- CTokenGroupID
\* an identifier is its byte string; a parent identifier has ParentIdSize bytes
ParentIdSize == 2
NoGroup == << >>
TokenGroupIdFlags_NONE == 0
TokenGroupIdFlags_MGT_TOKEN == 1
isUserGroup(grp) == Len(grp) > 0
isSubgroup(grp) == Len(grp) > ParentIdSize
parentGroup(grp) == IF Len(grp) <= ParentIdSize THEN grp ELSE SubSeq(grp, 1, ParentIdSize)
hasFlag(grp, flag) == Len(grp) >= ParentIdSize /\ grp[ParentIdSize] = flag

\* ------------------------------------------------------------ destinations
NoDestination == [type |-> "none", id |-> 0]
KeyID(k) == [type |-> "key", id |-> k]
ScriptID(k) == [type |-> "script", id |-> k]
ToByteVector(d) == << d.id >>

\* ------------------------------------------------------------------ scripts
Op(name) == [op |-> name, data |-> << >>]
Push(bytes) == [op |-> "PUSH", data |-> bytes]

AmountBytes == (AmountBits + 7) \div 8
RECURSIVE LEBytes(_, _)
LEBytes(u, n) == IF n = 0 THEN << >> ELSE << u % 256 >> \o LEBytes(u \div 256, n - 1)
RECURSIVE LEValue(_)
LEValue(bytes) == IF Len(bytes) = 0 THEN 0 ELSE bytes[1] + 256 * LEValue(Tail(bytes))
SerializeAmount(quantity) == LEBytes(ToUnsigned(quantity), AmountBytes)
DeserializeAmount(bytes) == ToSigned(LEValue(bytes))

P2PKH(keyID) ==
    << Op("OP_DUP"), Op("OP_HASH160"), Push(ToByteVector(keyID)), Op("OP_EQUALVERIFY"),
       Op("OP_CHECKSIG") >>
P2SH(scriptID) == << Op("OP_HASH160"), Push(ToByteVector(scriptID)), Op("OP_EQUAL") >>
GroupPrefix(group, quantity) ==
    << Push(group), Push(SerializeAmount(quantity)), Op("OP_GROUP"), Op("OP_DROP"), Op("OP_DROP") >>

GetScriptForDestination_KeyTemplate(dest, group, amount) ==
    (IF isUserGroup(group) THEN GroupPrefix(group, amount) ELSE << >>) \o P2PKH(dest)

\* CGroupScriptVisitor applied by GetScriptForDestination
GetScriptForDestination(dest, group, amount) ==
    IF dest.type = "none" THEN << >>
    ELSE IF dest.type = "key"
         THEN (IF isUserGroup(group) THEN GroupPrefix(group, amount) ELSE << >>) \o P2PKH(dest)
         ELSE (IF isUserGroup(group) THEN GroupPrefix(group, amount) ELSE << >>) \o P2SH(dest)

\* length of the serialised script: one byte an opcode, one more per pushed byte
RECURSIVE ScriptSize(_)
ScriptSize(script) ==
    IF Len(script) = 0 THEN 0
    ELSE 1 + Len(script[1].data) + ScriptSize(Tail(script))

HasGroupPrefix(script) ==
    /\ Len(script) >= 5
    /\ script[1].op = "PUSH"
    /\ script[2].op = "PUSH"
    /\ Len(script[2].data) = AmountBytes
    /\ script[3].op = "OP_GROUP"
    /\ script[4].op = "OP_DROP"
    /\ script[5].op = "OP_DROP"
    /\ Len(script[1].data) >= ParentIdSize

\* CTokenGroupInfo(script): the group and the quantity word a script carries
CTokenGroupInfo(script) ==
    IF HasGroupPrefix(script)
    THEN [associatedGroup |-> script[1].data, quantity |-> DeserializeAmount(script[2].data),
          invalid |-> FALSE]
    ELSE [associatedGroup |-> NoGroup, quantity |-> 0, invalid |-> FALSE]

controllingGroupFlags(tg) == IF tg.quantity < 0 THEN ToUnsigned(tg.quantity) ELSE NONE
isAuthority(tg) == hasCapability(controllingGroupFlags(tg), CTRL)
allowsMint(tg) == hasCapability(controllingGroupFlags(tg), CTRL + MINT)
allowsMelt(tg) == hasCapability(controllingGroupFlags(tg), CTRL + MELT)
allowsRenew(tg) == hasCapability(controllingGroupFlags(tg), CTRL + CCHILD)
allowsRescript(tg) == hasCapability(controllingGroupFlags(tg), CTRL + RESCRIPT)
allowsSubgroup(tg) == hasCapability(controllingGroupFlags(tg), CTRL + SUBGROUP)

\* ExtractDestination: the destination behind the (optional) group prefix
StripPrefix(script) == IF HasGroupPrefix(script) THEN SubSeq(script, 6, Len(script)) ELSE script
IsP2PKH(s) ==
    /\ Len(s) = 5
    /\ s[1].op = "OP_DUP" /\ s[2].op = "OP_HASH160" /\ s[3].op = "PUSH"
    /\ s[4].op = "OP_EQUALVERIFY" /\ s[5].op = "OP_CHECKSIG"
IsP2SH(s) == Len(s) = 3 /\ s[1].op = "OP_HASH160" /\ s[2].op = "PUSH" /\ s[3].op = "OP_EQUAL"
ExtractDestination(script) ==
    LET s == StripPrefix(script) IN
    IF IsP2PKH(s) THEN KeyID(s[3].data[1])
    ELSE IF IsP2SH(s) THEN ScriptID(s[2].data[1])
    ELSE NoDestination

\* ------------------------------------------------------------------- state
VARIABLES
    wallet,      \* the wallet's unspent outputs (COutput), in FilterCoins' iteration order
    keypool,     \* setKeyPool: the key ids a CReserveKey can still reserve
    keptKeys,    \* key ids taken out of the pool for good by KeepKey
    nextTxid,    \* hash given to the next committed transaction
    nOps,        \* operations run so far
    last,        \* outcome of the last wallet operation
    call,        \* last call of a library function: its name, arguments and result
    rpc          \* the RPC threads inside an operation, and the owners of cs_main and cs_wallet

vars == << wallet, keypool, keptKeys, nextTxid, nOps, last, call, rpc >>

\* COutput: a wallet transaction output; GetValue() is nValue, GetOutPoint() is (txid, n)
COutput(txid, n, nValue, scriptPubKey) ==
    [txid |-> txid, n |-> n, nValue |-> nValue, scriptPubKey |-> scriptPubKey]
GetOutPoint(coin) == << coin.txid, coin.n >>
tgOf(coin) == CTokenGroupInfo(coin.scriptPubKey)
NullCoin == COutput(0, 0, 0, << >>)          \* COutput(nullptr, 0, 0, false)

\* the group identifiers of the model: two groups, the management token XDM the
\* token manager charges fees in, and a subgroup of G1
G1 == << 1, TokenGroupIdFlags_NONE >>
G2 == << 2, TokenGroupIdFlags_NONE >>
XDM == << 9, TokenGroupIdFlags_MGT_TOKEN >>       \* tokenGroupManager->GetDarkMatterID()
Sub1 == G1 \o << 7 >>                              \* a subgroup of G1

\* CWallet::FilterCoins(coins, f) is SelectSeq(wal, f): it empties `coins`, then fills it
\* with the wallet's coins the predicate accepts, in wallet order

\* an unordered_map is a function on the keys it holds; m[k] reads 0 from a missing key
MapGet(m, k) == IF k \in DOMAIN m THEN m[k] ELSE 0
MapPut(m, k, v) == [x \in (DOMAIN m) \cup {k} |-> IF x = k THEN v ELSE m[x]]
EmptyMap == [x \in {} |-> 0]

\* --------------------------------------------------------- BalanceAggregator
\* GetAllGroupBalancesVisit with a plain += in place of the saturating addition
GetAllGroupBalancesVisit_PlainAdd(balances, out) ==
    LET tg == CTokenGroupInfo(out.scriptPubKey) IN
    IF tg.associatedGroup # NoGroup /\ ~isAuthority(tg)
    THEN MapPut(balances, tg.associatedGroup, Wrap(MapGet(balances, tg.associatedGroup) + tg.quantity))
    ELSE balances

\* the lambda of GetAllGroupBalances on one output
GetAllGroupBalancesVisit(balances, out) ==
    LET tg == CTokenGroupInfo(out.scriptPubKey) IN
    IF tg.associatedGroup # NoGroup /\ ~isAuthority(tg)
    THEN IF tg.quantity > MaxAmount - MapGet(balances, tg.associatedGroup)
         THEN MapPut(balances, tg.associatedGroup, MaxAmount)
         ELSE MapPut(balances, tg.associatedGroup, MapGet(balances, tg.associatedGroup) + tg.quantity)
    ELSE balances

RECURSIVE GetAllGroupBalancesFrom(_, _, _)
GetAllGroupBalancesFrom(wal, i, balances) ==
    IF i > Len(wal) THEN balances
    ELSE GetAllGroupBalancesFrom(wal, i + 1, GetAllGroupBalancesVisit(balances, wal[i]))
GetAllGroupBalances(wal, balances) == GetAllGroupBalancesFrom(wal, 1, balances)

\* the lambda of GetAllGroupBalancesAndAuthorities on one output; st = [balances, authorities]
GetAllGroupBalancesAndAuthoritiesVisit(st, out) ==
    LET tg == CTokenGroupInfo(out.scriptPubKey)
        g == tg.associatedGroup
        auth == MapPut(st.authorities, g, BitOr(MapGet(st.authorities, g), controllingGroupFlags(tg)))
    IN
    IF g # NoGroup
    THEN IF ~isAuthority(tg)
         THEN IF tg.quantity > MaxAmount - MapGet(st.balances, g)
              THEN [balances |-> MapPut(st.balances, g, MaxAmount), authorities |-> auth]
              ELSE [balances |-> MapPut(st.balances, g, MapGet(st.balances, g) + tg.quantity),
                    authorities |-> auth]
         ELSE [balances |-> MapPut(st.balances, g, MapGet(st.balances, g) + 0), authorities |-> auth]
    ELSE st

RECURSIVE GetAllGroupBalancesAndAuthoritiesFrom(_, _, _)
GetAllGroupBalancesAndAuthoritiesFrom(wal, i, st) ==
    IF i > Len(wal) THEN st
    ELSE GetAllGroupBalancesAndAuthoritiesFrom(wal, i + 1, GetAllGroupBalancesAndAuthoritiesVisit(st, wal[i]))
GetAllGroupBalancesAndAuthorities(wal, balances, authorities) ==
    GetAllGroupBalancesAndAuthoritiesFrom(wal, 1, [balances |-> balances, authorities |-> authorities])

\* a filter that lets every coin of the group through
UseIt_IgnoresFilter(dest, out) == TRUE

\* bool useit of GetGroupBalance / GetGroupBalanceAndAuthorities
UseIt(dest, out) ==
    IF dest = NoDestination THEN TRUE
    ELSE LET address == ExtractDestination(out.scriptPubKey) IN
         address # NoDestination /\ address = dest

\* GetGroupBalanceVisit with a plain += in place of the saturating addition
GetGroupBalanceVisit_PlainAdd(balance, grpID, dest, out) ==
    LET tg == CTokenGroupInfo(out.scriptPubKey) IN
    IF grpID = tg.associatedGroup /\ ~isAuthority(tg) /\ UseIt(dest, out)
    THEN Wrap(balance + tg.quantity)
    ELSE balance

\* the lambda of GetGroupBalance on one output
GetGroupBalanceVisit(balance, grpID, dest, out) ==
    LET tg == CTokenGroupInfo(out.scriptPubKey) IN
    IF grpID = tg.associatedGroup /\ ~isAuthority(tg)
    THEN IF UseIt(dest, out)
         THEN IF tg.quantity > MaxAmount - balance THEN MaxAmount ELSE balance + tg.quantity
         ELSE balance
    ELSE balance

RECURSIVE GetGroupBalanceFrom(_, _, _, _, _)
GetGroupBalanceFrom(wal, i, balance, grpID, dest) ==
    IF i > Len(wal) THEN balance
    ELSE GetGroupBalanceFrom(wal, i + 1, GetGroupBalanceVisit(balance, grpID, dest, wal[i]), grpID, dest)
GetGroupBalance(grpID, dest, wal) == GetGroupBalanceFrom(wal, 1, 0, grpID, dest)

\* GetGroupBalanceAndAuthoritiesVisit without the isAuthority test: the flag word of an
\* authority is added like a quantity
GetGroupBalanceAndAuthoritiesVisit_CountsAuthority(st, grpID, dest, out) ==
    LET tg == CTokenGroupInfo(out.scriptPubKey) IN
    IF grpID = tg.associatedGroup /\ UseIt(dest, out)
    THEN [balance |-> IF tg.quantity > MaxAmount - st.balance THEN MaxAmount
                      ELSE st.balance + tg.quantity,
          authorities |-> BitOr(st.authorities, controllingGroupFlags(tg))]
    ELSE st

\* the lambda of GetGroupBalanceAndAuthorities on one output; st = [balance, authorities]
GetGroupBalanceAndAuthoritiesVisit(st, grpID, dest, out) ==
    LET tg == CTokenGroupInfo(out.scriptPubKey) IN
    IF grpID = tg.associatedGroup
    THEN IF UseIt(dest, out)
         THEN LET auth == BitOr(st.authorities, controllingGroupFlags(tg)) IN
              IF ~isAuthority(tg)
              THEN IF tg.quantity > MaxAmount - st.balance
                   THEN [balance |-> MaxAmount, authorities |-> auth]
                   ELSE [balance |-> st.balance + tg.quantity, authorities |-> auth]
              ELSE [balance |-> st.balance + 0, authorities |-> auth]
         ELSE st
    ELSE st

RECURSIVE GetGroupBalanceAndAuthoritiesFrom(_, _, _, _, _)
GetGroupBalanceAndAuthoritiesFrom(wal, i, st, grpID, dest) ==
    IF i > Len(wal) THEN st
    ELSE GetGroupBalanceAndAuthoritiesFrom(wal, i + 1,
             GetGroupBalanceAndAuthoritiesVisit(st, grpID, dest, wal[i]), grpID, dest)
GetGroupBalanceAndAuthorities(grpID, dest, wal) ==
    GetGroupBalanceAndAuthoritiesFrom(wal, 1, [balance |-> 0, authorities |-> NONE], grpID, dest)

\* -------------------------------------------------------------- CoinSelector
\* st = [ret, curBest, chosenCoin]
RECURSIVE NearestGreaterCoinFrom(_, _, _, _)
NearestGreaterCoinFrom(coins, amt, i, st) ==
    IF i > Len(coins) THEN st
    ELSE LET camt == coins[i].nValue IN
         IF camt > amt /\ camt < st.curBest
         THEN NearestGreaterCoinFrom(coins, amt, i + 1,
                  [ret |-> TRUE, curBest |-> camt, chosenCoin |-> coins[i]])
         ELSE NearestGreaterCoinFrom(coins, amt, i + 1, st)
NearestGreaterCoin(coins, amt, chosenCoin) ==
    LET r == NearestGreaterCoinFrom(coins, amt, 1,
                 [ret |-> FALSE, curBest |-> MaxAmount, chosenCoin |-> chosenCoin])
    IN [ret |-> r.ret, chosenCoin |-> r.chosenCoin]

\* st = [cur, chosenCoins, ub]; ub: the signed addition cur += ... overflowed
RECURSIVE CoinSelectionFrom(_, _, _, _)
CoinSelectionFrom(coins, amt, i, st) ==
    IF i > Len(coins) THEN st
    ELSE LET sum == st.cur + coins[i].nValue
             st2 == [cur |-> Wrap(sum), chosenCoins |-> Append(st.chosenCoins, coins[i]),
                     ub |-> st.ub \/ Overflows(sum)]
         IN IF st2.cur >= amt THEN st2 ELSE CoinSelectionFrom(coins, amt, i + 1, st2)
CoinSelection(coins, amt, chosenCoins) ==
    CoinSelectionFrom(coins, amt, 1, [cur |-> 0, chosenCoins |-> chosenCoins, ub |-> FALSE])

RECURSIVE GroupCoinSelectionFrom(_, _, _, _)
GroupCoinSelectionFrom(coins, amt, i, st) ==
    IF i > Len(coins) THEN st
    ELSE LET tg == CTokenGroupInfo(coins[i].scriptPubKey)
             sum == st.cur + tg.quantity
             st2 == [cur |-> Wrap(sum), chosenCoins |-> Append(st.chosenCoins, coins[i]),
                     ub |-> st.ub \/ Overflows(sum)]
         IN IF st2.cur >= amt THEN st2 ELSE GroupCoinSelectionFrom(coins, amt, i + 1, st2)
GroupCoinSelection(coins, amt, chosenCoins) ==
    GroupCoinSelectionFrom(coins, amt, 1, [cur |-> 0, chosenCoins |-> chosenCoins, ub |-> FALSE])

\* ------------------------------------------------------- wallet collaborators
GROUPED_SATOSHI_AMT == 1
FEE_FUDGE == 2
TX_SIG_SCRIPT_LEN == 72
FeePerK == 10                        \* the wallet's fee rate, per 1000 bytes

\* ::GetSerializeSize of a CTxOut (value, script length, script) and of an unsigned CTxIn
TxOutSize(txout) == 8 + 1 + ScriptSize(txout.scriptPubKey)
TxInSize == 36 + 1 + 4
\* CWallet::GetRequiredFee
GetRequiredFee(nTxBytes) == (FeePerK * nTxBytes) \div 1000

CRecipient(scriptPubKey, nAmount) == [scriptPubKey |-> scriptPubKey, nAmount |-> nAmount]
CTxOut(nValue, scriptPubKey) == [nValue |-> nValue, scriptPubKey |-> scriptPubKey]

\* CReserveKey: 0 while nothing is reserved (nIndex == -1), else the reserved key id
NoKey == 0
SetMin(S) == CHOOSE x \in S : \A y \in S : x <= y
\* CPubKey().GetID(): the id of the invalid key a failed reservation leaves behind
InvalidKeyID == KeyID(NoKey)
Event(e, key) == [e |-> e, key |-> key]
\* CReserveKey::GetReservedKey: [ok, key, res, pool, log]
GetReservedKey(res, pool, log) ==
    IF res # NoKey THEN [ok |-> TRUE, key |-> res, res |-> res, pool |-> pool, log |-> log]
    ELSE IF pool = {} THEN [ok |-> FALSE, key |-> NoKey, res |-> NoKey, pool |-> pool, log |-> log]
    ELSE LET k == SetMin(pool) IN
         [ok |-> TRUE, key |-> k, res |-> k, pool |-> pool \ {k},
          log |-> Append(log, Event("reserve", k))]
\* CReserveKey::KeepKey and ~CReserveKey (ReturnKey): the log after the call
KeepKey(res, log) == IF res = NoKey THEN log ELSE Append(log, Event("keep", res))
ReturnKey(res, log) == IF res = NoKey THEN log ELSE Append(log, Event("return", res))
PoolAfterReturn(res, pool) == IF res = NoKey THEN pool ELSE pool \cup {res}

\* ------------------------------------------------------------ RenewAuthority
\* [totalBchNeeded, outputs, res, pool, log]
RenewAuthority(authority, outputs, childAuthorityKey, pool, log) ==
    LET tg == CTokenGroupInfo(authority.scriptPubKey) IN
    IF allowsRenew(tg)
    THEN LET k == GetReservedKey(childAuthorityKey, pool, log)
             authDest == KeyID(k.key)
             script == GetScriptForDestination(authDest, tg.associatedGroup,
                           ToSigned(BitAnd(controllingGroupFlags(tg), ALL_BITS)))
         IN [totalBchNeeded |-> GROUPED_SATOSHI_AMT,
             outputs |-> Append(outputs, CRecipient(script, GROUPED_SATOSHI_AMT)),
             res |-> k.res, pool |-> k.pool, log |-> k.log]
    ELSE [totalBchNeeded |-> 0, outputs |-> outputs, res |-> childAuthorityKey, pool |-> pool,
          log |-> log]

\* --------------------------------------------------------------- ConstructTx
RECURSIVE SumOutSizes(_)
SumOutSizes(outs) == IF Len(outs) = 0 THEN 0 ELSE TxOutSize(outs[1]) + SumOutSizes(Tail(outs))

\* lines 462-477: the recipients become outputs, the chosen coins inputs
CtxStart(chosenCoins, outputs, totalAvailable, pool, log) ==
    LET vout == [i \in 1..Len(outputs) |-> CTxOut(outputs[i].nAmount, outputs[i].scriptPubKey)]
        inpSize == IF Len(chosenCoins) = 0 THEN 0 ELSE TxInSize + TX_SIG_SCRIPT_LEN
    IN [status |-> "building",
        vin |-> [i \in 1..Len(chosenCoins) |-> GetOutPoint(chosenCoins[i])],
        spent |-> chosenCoins,
        vout |-> vout,
        approxSize |-> SumOutSizes(vout) + Len(chosenCoins) * (TxInSize + TX_SIG_SCRIPT_LEN),
        inpSize |-> inpSize,
        fee |-> 0,
        totalAvailable |-> totalAvailable,
        groupChangeKeyReservation |-> NoKey,
        feeChangeKeyReservation |-> NoKey,
        pool |-> pool,
        committed |-> FALSE,
        log |-> log]

\* CtxTokenChange returning the whole amount available instead of the surplus
CtxTokenChange_ReturnsAll(b, grp, available, needed) ==
    IF b.status # "building" \/ ~(available > needed) THEN b
    ELSE LET k == GetReservedKey(b.groupChangeKeyReservation, b.pool, b.log) IN
         IF ~k.ok THEN [b EXCEPT !.status = "keypool"]
         ELSE LET txout == CTxOut(GROUPED_SATOSHI_AMT,
                               GetScriptForDestination(KeyID(k.key), grp, Wrap(available)))
              IN [b EXCEPT !.vout = Append(b.vout, txout),
                           !.approxSize = b.approxSize + TxOutSize(txout),
                           !.groupChangeKeyReservation = k.res,
                           !.pool = k.pool,
                           !.log = k.log]

\* lines 479-505: a change output of `surplus` tokens of group grp, paid to the key of
\* groupChangeKeyReservation
CtxTokenChange(b, grp, available, needed) ==
    IF b.status # "building" \/ ~(available > needed) THEN b
    ELSE LET k == GetReservedKey(b.groupChangeKeyReservation, b.pool, b.log) IN
         IF ~k.ok THEN [b EXCEPT !.status = "keypool"]
         ELSE LET txout == CTxOut(GROUPED_SATOSHI_AMT,
                               GetScriptForDestination(KeyID(k.key), grp, Wrap(available - needed)))
              IN [b EXCEPT !.vout = Append(b.vout, txout),
                           !.approxSize = b.approxSize + TxOutSize(txout),
                           !.groupChangeKeyReservation = k.res,
                           !.pool = k.pool,
                           !.log = k.log]

\* lines 507-512
CtxFee(b) ==
    IF b.status # "building" THEN b
    ELSE [b EXCEPT !.approxSize = b.approxSize + b.inpSize * 3,
                   !.fee = GetRequiredFee(b.approxSize + b.inpSize * 3)]

\* line 514
NeedsFeeInput(totalAvailable, totalNeeded, fee) == totalAvailable < totalNeeded + fee
\* line 524: the amount the fee coin has to exceed
FeeCoinTarget(totalAvailable, totalNeeded, fee) == fee

\* lines 514-533
CtxFeeInput(b, wal, totalNeeded) ==
    IF b.status # "building" \/ ~NeedsFeeInput(b.totalAvailable, totalNeeded, b.fee) THEN b
    ELSE LET bchcoins == SelectSeq(wal, LAMBDA out : NoGroup = CTokenGroupInfo(out.scriptPubKey).associatedGroup)
             r == NearestGreaterCoin(bchcoins, FeeCoinTarget(b.totalAvailable, totalNeeded, b.fee), NullCoin)
         IN IF ~r.ret THEN [b EXCEPT !.status = "nofee"]
            ELSE [b EXCEPT !.vin = Append(b.vin, GetOutPoint(r.chosenCoin)),
                           !.spent = Append(b.spent, r.chosenCoin),
                           !.totalAvailable = b.totalAvailable + r.chosenCoin.nValue]

\* the change rule without the FEE_FUDGE allowance
NeedsBaseChange_NoFudge(totalAvailable, totalNeeded, fee) == totalAvailable > totalNeeded + fee

\* line 536
NeedsBaseChange(totalAvailable, totalNeeded, fee) == totalAvailable > totalNeeded + (FEE_FUDGE * fee)
\* line 544
BaseChangeValue(totalAvailable, totalNeeded, fee) == totalAvailable - totalNeeded - fee

\* lines 535-546
CtxBaseChange(b, totalNeeded) ==
    IF b.status # "building" \/ ~NeedsBaseChange(b.totalAvailable, totalNeeded, b.fee) THEN b
    ELSE LET k == GetReservedKey(b.feeChangeKeyReservation, b.pool, b.log) IN
         IF ~k.ok THEN [b EXCEPT !.status = "keypool"]
         ELSE LET txout == CTxOut(BaseChangeValue(b.totalAvailable, totalNeeded, b.fee),
                               GetScriptForDestination(KeyID(k.key), NoGroup, 0))
              IN [b EXCEPT !.vout = Append(b.vout, txout),
                           !.feeChangeKeyReservation = k.res,
                           !.pool = k.pool,
                           !.log = k.log]

\* a ConstructTx that carries on when SignTransaction refuses
CtxSign_CarriesOn(b, signOk) ==
    IF b.status # "building" THEN b
    ELSE [b EXCEPT !.log = Append(b.log, Event("sign", NoKey))]

\* lines 548-551: wallet->SignTransaction
CtxSign(b, signOk) ==
    IF b.status # "building" THEN b
    ELSE IF signOk THEN [b EXCEPT !.log = Append(b.log, Event("sign", NoKey))]
    ELSE [b EXCEPT !.status = "signfail", !.log = Append(b.log, Event("sign", NoKey))]

\* CheckTransaction refuses a transaction that names an outpoint twice
NoDuplicateInputs(vin) == \A i, j \in 1..Len(vin) : i # j => vin[i] # vin[j]

\* a CommitTransaction that has stored the transaction by the time it reports the refusal
CtxCommit_CommitsThenFails(b, commitOk) ==
    IF b.status # "building" THEN b
    ELSE IF commitOk /\ NoDuplicateInputs(b.vin)
         THEN [b EXCEPT !.committed = TRUE, !.log = Append(b.log, Event("commit", NoKey))]
    ELSE [b EXCEPT !.status = "rejected", !.committed = TRUE,
                   !.log = Append(b.log, Event("commit", NoKey))]

\* lines 567-573: wallet->CommitTransaction
CtxCommit(b, commitOk) ==
    IF b.status # "building" THEN b
    ELSE IF commitOk /\ NoDuplicateInputs(b.vin)
         THEN [b EXCEPT !.committed = TRUE, !.log = Append(b.log, Event("commit", NoKey))]
    ELSE [b EXCEPT !.status = "rejected", !.log = Append(b.log, Event("commit", NoKey))]

\* ConstructTx keeping its two keys however it ends
CtxKeys_KeepsAlways(b) ==
    [b EXCEPT !.status = IF b.status = "building" THEN "ok" ELSE b.status,
              !.log = KeepKey(b.groupChangeKeyReservation, KeepKey(b.feeChangeKeyReservation, b.log))]

\* lines 575-577, and the destructors of the two reservations when an exception leaves
\* the function
CtxKeys(b) ==
    IF b.status = "building"
    THEN [b EXCEPT !.status = "ok",
                   !.log = KeepKey(b.groupChangeKeyReservation, KeepKey(b.feeChangeKeyReservation, b.log))]
    ELSE [b EXCEPT !.log = ReturnKey(b.groupChangeKeyReservation, ReturnKey(b.feeChangeKeyReservation, b.log)),
                   !.pool = PoolAfterReturn(b.groupChangeKeyReservation,
                                PoolAfterReturn(b.feeChangeKeyReservation, b.pool))]

\* env = [signOk, commitOk]: what SignTransaction and CommitTransaction answer
ConstructTx(wal, chosenCoins, outputs, totalAvailable, totalNeeded, totalGroupedAvailable, totalGroupedNeeded, totalXDMAvailable, totalXDMNeeded, grpID, pool, log, env) ==
    LET b0 == CtxStart(chosenCoins, outputs, totalAvailable, pool, log)
        b1 == CtxTokenChange(b0, grpID, totalGroupedAvailable, totalGroupedNeeded)
        b2 == CtxTokenChange(b1, XDM, totalXDMAvailable, totalXDMNeeded)
        b3 == CtxFee(b2)
        b4 == CtxFeeInput(b3, wal, totalNeeded)
        b5 == CtxBaseChange(b4, totalNeeded)
        b6 == CtxSign(b5, env.signOk)
        b7 == CtxCommit(b6, env.commitOk)
    IN CtxKeys(b7)

\* ------------------------------------------------------- results of operations
\* an operation that throws before ConstructTx is reached
Thrown(status, pool, log) ==
    [status |-> status, vin |-> << >>, spent |-> << >>, vout |-> << >>, approxSize |-> 0,
     inpSize |-> 0, fee |-> 0, totalAvailable |-> 0, groupChangeKeyReservation |-> NoKey,
     feeChangeKeyReservation |-> NoKey, pool |-> pool, committed |-> FALSE, log |-> log]

\* the caller's own CReserveKey after ConstructTx: KeepKey when it returned, ~CReserveKey
\* when it threw
CallerKey(b, res) ==
    IF b.status = "ok" THEN [b EXCEPT !.log = KeepKey(res, b.log)]
    ELSE [b EXCEPT !.log = ReturnKey(res, b.log), !.pool = PoolAfterReturn(res, b.pool)]

\* what an operation leaves behind: b is the builder's state, t the totals handed to
\* ConstructTx
OpResult(op, grpID, b, nRequested, t, ub) ==
    [op |-> op, grpID |-> grpID, status |-> b.status, vin |-> b.vin, spent |-> b.spent,
     vout |-> b.vout, fee |-> b.fee, totalAvailable |-> b.totalAvailable,
     totalNeeded |-> t.totalNeeded, totalGroupedAvailable |-> t.totalGroupedAvailable,
     totalGroupedNeeded |-> t.totalGroupedNeeded, totalXDMAvailable |-> t.totalXDMAvailable,
     totalXDMNeeded |-> t.totalXDMNeeded, nRequested |-> nRequested,
     committed |-> b.committed, log |-> b.log, pool |-> b.pool, ub |-> ub]
Totals(n, ga, gn, xa, xn) ==
    [totalNeeded |-> n, totalGroupedAvailable |-> ga, totalGroupedNeeded |-> gn,
     totalXDMAvailable |-> xa, totalXDMNeeded |-> xn]
NoTotals == Totals(0, 0, 0, 0, 0)

\* a lambda's total += tg.quantity over the coins it accepts: [sum, ub]
RECURSIVE QuantityTotalFrom(_, _, _)
QuantityTotalFrom(coins, i, st) ==
    IF i > Len(coins) THEN st
    ELSE LET sum == st.sum + CTokenGroupInfo(coins[i].scriptPubKey).quantity IN
         QuantityTotalFrom(coins, i + 1, [sum |-> Wrap(sum), ub |-> st.ub \/ Overflows(sum)])
QuantityTotal(coins) == QuantityTotalFrom(coins, 1, [sum |-> 0, ub |-> FALSE])

IsTokenOf(grp, out) ==
    LET tg == CTokenGroupInfo(out.scriptPubKey) IN grp = tg.associatedGroup /\ ~isAuthority(tg)

\* tokenGroupManager->MatchesDarkMatter, ->EnsureXDMFee
MatchesDarkMatter(grpID) == grpID = XDM
XDMFeeAddress == KeyID(90)
EnsureXDMFee(outputs, XDMFee) ==
    IF XDMFee > 0
    THEN Append(outputs, CRecipient(GetScriptForDestination(XDMFeeAddress, XDM, XDMFee), GROUPED_SATOSHI_AMT))
    ELSE outputs

\* ----------------------------------------------------------------- GroupMelt
\* lines 589-616: the authority coins an operation may spend; `allows` is the capability
\* the operation needs
MeltAuthorities_DirectOnly(wal, grpID) ==
    SelectSeq(wal, LAMBDA out :
        LET tg == CTokenGroupInfo(out.scriptPubKey) IN
        tg.associatedGroup = grpID /\ allowsMelt(tg))

\* lines 589-616: the coins GroupMelt can take its authority from
MeltAuthorities(wal, grpID) ==
    LET direct == SelectSeq(wal, LAMBDA out :
                      LET tg == CTokenGroupInfo(out.scriptPubKey) IN
                      tg.associatedGroup = grpID /\ allowsMelt(tg))
    IN IF Len(direct) = 0 /\ isSubgroup(grpID)
       THEN SelectSeq(wal, LAMBDA out :
                LET tg == CTokenGroupInfo(out.scriptPubKey) IN
                /\ isAuthority(tg) /\ allowsRenew(tg) /\ allowsSubgroup(tg) /\ allowsMelt(tg)
                /\ tg.associatedGroup = parentGroup(grpID))
       ELSE direct

GroupMelt(wal, grpID, totalNeeded, pool, env) ==
    LET auths == MeltAuthorities(wal, grpID) IN
    IF Len(auths) = 0
    THEN OpResult("melt", grpID, Thrown("noauthority", pool, << >>), 0, NoTotals, FALSE)
             @@ [needed |-> totalNeeded]
    ELSE
    LET authority == auths[1]
        totalBchAvailable == authority.nValue
        coins == SelectSeq(wal, LAMBDA out : IsTokenOf(grpID, out))
        sel == GroupCoinSelection(coins, totalNeeded, << >>)
    IN
    IF sel.cur < totalNeeded
    THEN OpResult("melt", grpID, Thrown("notokens", pool, << >>), 0, NoTotals,
                  sel.ub \/ Overflows(totalNeeded - sel.cur))
             @@ [needed |-> totalNeeded, shortfall |-> Wrap(totalNeeded - sel.cur)]
    ELSE
    LET chosenCoins == Append(sel.chosenCoins, authority)
        ra == RenewAuthority(authority, << >>, NoKey, pool, << >>)
        t == Totals(ra.totalBchNeeded, sel.cur - totalNeeded, 0, 0, 0)
        b == ConstructTx(wal, chosenCoins, ra.outputs, totalBchAvailable, t.totalNeeded,
                         t.totalGroupedAvailable, 0, 0, 0, grpID, ra.pool, ra.log, env)
    IN OpResult("melt", grpID, CallerKey(b, ra.res), Len(ra.outputs), t, sel.ub)
           @@ [needed |-> totalNeeded]

\* ----------------------------------------------------------------- GroupSend
\* (a result also tells the totals the function worked with - needed, xdmNeeded - and,
\* when it threw for lack of tokens, the shortfall its message reports: lines 647, 695, 717)
GroupSend(wal, grpID, outputs, totalNeededIn, totalXDMNeededIn, pool, env, ubIn) ==
    LET merged == MatchesDarkMatter(grpID)
        neededSum == IF merged THEN totalNeededIn + totalXDMNeededIn ELSE totalNeededIn
        totalNeeded == Wrap(neededSum)
        totalXDMNeeded == IF merged THEN 0 ELSE totalXDMNeededIn
        selectXDM == ~merged /\ totalXDMNeeded > 0
        xdmCoins == SelectSeq(wal, LAMBDA out : IsTokenOf(XDM, out))
        xdmTotal == IF selectXDM THEN QuantityTotal(xdmCoins) ELSE [sum |-> 0, ub |-> FALSE]
        ub1 == ubIn \/ Overflows(neededSum) \/ xdmTotal.ub
    IN
    IF selectXDM /\ xdmTotal.sum < totalXDMNeeded
    THEN OpResult("send", grpID, Thrown("noxdm", pool, << >>), Len(outputs), NoTotals,
                  ub1 \/ Overflows(totalXDMNeeded - xdmTotal.sum))
             @@ [needed |-> totalNeeded, xdmNeeded |-> totalXDMNeeded,
                 shortfall |-> Wrap(totalXDMNeeded - xdmTotal.sum)]
    ELSE
    LET xdmSel == IF selectXDM THEN GroupCoinSelection(xdmCoins, totalXDMNeeded, << >>)
                  ELSE [cur |-> 0, chosenCoins |-> << >>, ub |-> FALSE]
        coins == SelectSeq(wal, LAMBDA out : IsTokenOf(grpID, out))
        total == QuantityTotal(coins)
        ub2 == ub1 \/ xdmSel.ub \/ total.ub
    IN
    IF total.sum < totalNeeded
    THEN OpResult("send", grpID, Thrown("notokens", pool, << >>), Len(outputs), NoTotals,
                  ub2 \/ Overflows(totalNeeded - total.sum))
             @@ [needed |-> totalNeeded, xdmNeeded |-> totalXDMNeeded,
                 shortfall |-> Wrap(totalNeeded - total.sum)]
    ELSE
    LET sel == GroupCoinSelection(coins, totalNeeded, xdmSel.chosenCoins)
        t == Totals(GROUPED_SATOSHI_AMT * Len(outputs), sel.cur, totalNeeded, xdmSel.cur, totalXDMNeeded)
        b == ConstructTx(wal, sel.chosenCoins, outputs, 0, t.totalNeeded, sel.cur, totalNeeded,
                         xdmSel.cur, totalXDMNeeded, grpID, pool, << >>, env)
    IN OpResult("send", grpID, b, Len(outputs), t, ub2 \/ sel.ub)
           @@ [needed |-> totalNeeded, xdmNeeded |-> totalXDMNeeded]

\* ------------------------------------------------------- ParseGroupAddrValue
\* params: the (destination, amount) pairs of the command line; [status, outputs,
\* totalValue, ub]
RECURSIVE ParseGroupAddrValueFrom(_, _, _, _)
ParseGroupAddrValueFrom(grpID, params, i, st) ==
    IF i > Len(params) \/ st.status # "ok" THEN st
    ELSE IF params[i].dst = NoDestination THEN [st EXCEPT !.status = "invalid"]
    ELSE IF params[i].amount <= 0 THEN [st EXCEPT !.status = "invalid"]
    ELSE LET script == GetScriptForDestination(params[i].dst, grpID, params[i].amount)
             sum == st.totalValue + params[i].amount
         IN ParseGroupAddrValueFrom(grpID, params, i + 1,
                [status |-> "ok", outputs |-> Append(st.outputs, CRecipient(script, GROUPED_SATOSHI_AMT)),
                 totalValue |-> Wrap(sum), ub |-> st.ub \/ Overflows(sum)])
ParseGroupAddrValue(grpID, params) ==
    IF ~isUserGroup(grpID) THEN [status |-> "invalid", outputs |-> << >>, totalValue |-> 0, ub |-> FALSE]
    ELSE ParseGroupAddrValueFrom(grpID, params, 1,
             [status |-> "ok", outputs |-> << >>, totalValue |-> 0, ub |-> FALSE])

\* ------------------------------------------------------- token send, token melt
\* xdmFee: what tokenGroupManager->GetXDMFee answers at the chain tip
TokenSend(wal, grpID, params, xdmFee, pool, env) ==
    LET p == ParseGroupAddrValue(grpID, params) IN
    IF p.status # "ok" \/ Len(p.outputs) = 0
    THEN OpResult("send", grpID, Thrown("invalid", pool, << >>), 0, NoTotals, p.ub)
    ELSE LET XDMFeeNeeded == IF MatchesDarkMatter(grpID) THEN xdmFee ELSE 0
             outputs == EnsureXDMFee(p.outputs, XDMFeeNeeded)
         IN GroupSend(wal, grpID, outputs, p.totalValue, XDMFeeNeeded, pool, env, p.ub)

TokenMelt(wal, grpID, totalNeeded, pool, env) ==
    IF ~isUserGroup(grpID)
    THEN OpResult("melt", grpID, Thrown("invalid", pool, << >>), 0, NoTotals, FALSE)
    ELSE GroupMelt(wal, grpID, totalNeeded, pool, env)

\* ---------------------------------------------------------------- token subgroup
\* a postfix parameter is a JSON number or a string (of character codes); a string that
\* boost::lexical_cast<int64_t> accepts counts as a number (here: a non-empty string of
\* decimal digits)
NumPostfix(n) == [isNum |-> TRUE, num |-> n, str |-> << >>]
StrPostfix(chars) == [isNum |-> FALSE, num |-> 0, str |-> chars]
IsDigits(chars) == Len(chars) > 0 /\ \A i \in 1..Len(chars) : chars[i] \in 48..57
RECURSIVE DecimalValue(_)
DecimalValue(chars) ==
    IF Len(chars) = 0 THEN 0
    ELSE 10 * DecimalValue(SubSeq(chars, 1, Len(chars) - 1)) + (chars[Len(chars)] - 48)
\* lines 905-940: the bytes of the postfix; WRITEDATA writes a number as the bytes of a
\* uint64_t, lowest first
PostfixBytes(p) ==
    IF p.isNum THEN LEBytes(p.num % WordMod, AmountBytes)
    ELSE IF IsDigits(p.str) THEN LEBytes(DecimalValue(p.str) % WordMod, AmountBytes)
    ELSE p.str

\* lines 887-958: [status, subgrpID]
TokenSubgroup(grpID, p) ==
    IF ~isUserGroup(grpID) THEN [status |-> "invalid", subgrpID |-> NoGroup]
    ELSE LET postfix == PostfixBytes(p) IN
         IF Len(postfix) = 0 THEN [status |-> "invalid", subgrpID |-> NoGroup]
         ELSE [status |-> "ok", subgrpID |-> grpID \o postfix]

\* --------------------------------------------------------------- findGroupId
\* CHashWriter over (input, token description, nonce): the two bytes of the identifier.
\* The last byte is what the grinding loop compares with the wanted flags.
GroupHash(input, opRetTokDesc, nonce) ==
    << 10 + ((3 * input[1] + input[2] + ScriptSize(opRetTokDesc) + nonce) % 4),
       (input[1] + input[2] + ScriptSize(opRetTokDesc) + nonce) % 2 >>

\* a findGroupId that takes the first hash, whatever its last byte
findGroupId_FirstHash(input, opRetTokDesc, flags, nonce) ==
    LET n == BitAnd((nonce + 1) % WordMod, BitNot(ALL_BITS)) IN
    [grpID |-> GroupHash(input, opRetTokDesc, n), nonce |-> n]

\* [grpID, nonce]
RECURSIVE findGroupId(_, _, _, _)
findGroupId(input, opRetTokDesc, flags, nonce) ==
    LET n == BitAnd((nonce + 1) % WordMod, BitNot(ALL_BITS))
        ret == GroupHash(input, opRetTokDesc, n)
    IN IF ret[ParentIdSize] # flags THEN findGroupId(input, opRetTokDesc, flags, n)
       ELSE [grpID |-> ret, nonce |-> n]

\* BuildTokenDescScript: OP_RETURN, the protocol id, then one push per field
OpRetGroupId == << 88 >>
BuildTokenDescScript(desc) ==
    << Op("OP_RETURN"), Push(OpRetGroupId) >> \o [i \in 1..Len(desc) |-> Push(desc[i])]

\* Params().MaxMoneyOut()
MaxMoneyOut == MaxAmount \div 2

\* lines 1206-1218: the filter that remembers the lowest value it has accepted
RECURSIVE LowestUntaggedFrom(_, _, _, _)
LowestUntaggedFrom(wal, i, lowest, coins) ==
    IF i > Len(wal) THEN coins
    ELSE IF CTokenGroupInfo(wal[i].scriptPubKey).associatedGroup = NoGroup /\ wal[i].nValue < lowest
         THEN LowestUntaggedFrom(wal, i + 1, wal[i].nValue, Append(coins, wal[i]))
         ELSE LowestUntaggedFrom(wal, i + 1, lowest, coins)
LowestUntagged(wal) == LowestUntaggedFrom(wal, 1, MaxMoneyOut, << >>)

\* lines 1273-1305 and 1542-1574: the XDM fee of an operation that creates tokens.
\* `coins` is the caller's vector as the block finds it: FilterCoins refills it only when a
\* fee is due, GroupCoinSelection reads it in either case.
\* [status, outputs, chosenCoins, totalXDMAvailable, XDMFeeNeeded, ub]
XDMFeeInputs(wal, grpID, outputs, chosenCoins, coins, xdmFee) ==
    IF hasFlag(grpID, TokenGroupIdFlags_MGT_TOKEN)
    THEN [status |-> "ok", outputs |-> outputs, chosenCoins |-> chosenCoins,
          totalXDMAvailable |-> 0, XDMFeeNeeded |-> 0, ub |-> FALSE]
    ELSE LET XDMFeeNeeded == xdmFee * 5
             outs == EnsureXDMFee(outputs, XDMFeeNeeded)
             filtered == IF XDMFeeNeeded > 0 THEN SelectSeq(wal, LAMBDA out : IsTokenOf(XDM, out))
                         ELSE coins
             total == IF XDMFeeNeeded > 0 THEN QuantityTotal(filtered) ELSE [sum |-> 0, ub |-> FALSE]
         IN IF total.sum < XDMFeeNeeded
            THEN [status |-> "noxdm", outputs |-> outs, chosenCoins |-> chosenCoins,
                  totalXDMAvailable |-> total.sum, XDMFeeNeeded |-> XDMFeeNeeded, ub |-> total.ub]
            ELSE LET sel == GroupCoinSelection(filtered, XDMFeeNeeded, chosenCoins) IN
                 [status |-> "ok", outputs |-> outs, chosenCoins |-> sel.chosenCoins,
                  totalXDMAvailable |-> sel.cur, XDMFeeNeeded |-> XDMFeeNeeded,
                  ub |-> total.ub \/ sel.ub]

\* ----------------------------------------------------------------- token new
\* mode: "none" (no further parameter), "addr" (an authority address), "desc" (a token
\* description)
TokenNew(wal, mode, addr, desc, xdmFee, pool, env) ==
    LET coins == LowestUntagged(wal) IN
    IF Len(coins) = 0
    THEN OpResult("new", NoGroup, Thrown("nocoins", pool, << >>), 0, NoTotals, FALSE)
    ELSE
    LET coin == coins[Len(coins)]
        opretScript == IF mode = "desc" /\ Len(desc) > 0 THEN BuildTokenDescScript(desc) ELSE << >>
        outputs0 == IF Len(opretScript) > 0 THEN << CRecipient(opretScript, 0) >> ELSE << >>
        k == IF mode = "addr" THEN [ok |-> TRUE, key |-> NoKey, res |-> NoKey, pool |-> pool, log |-> << >>]
             ELSE GetReservedKey(NoKey, pool, << >>)
        authDest == IF mode = "addr" THEN addr ELSE KeyID(k.key)
        id == findGroupId(GetOutPoint(coin), opretScript, TokenGroupIdFlags_NONE, 0)
        script == GetScriptForDestination(authDest, id.grpID, ToSigned(BitOr(ALL, id.nonce)))
        outputs1 == Append(outputs0, CRecipient(script, GROUPED_SATOSHI_AMT))
        x == XDMFeeInputs(wal, id.grpID, outputs1, << coin >>, << >>, xdmFee)
    IN
    IF x.status # "ok"
    THEN OpResult("new", id.grpID,
                  CallerKey(Thrown(x.status, k.pool, k.log), k.res), Len(x.outputs), NoTotals, x.ub)
    ELSE
    LET t == Totals(0, 0, 0, x.totalXDMAvailable, x.XDMFeeNeeded)
        b == ConstructTx(wal, x.chosenCoins, x.outputs, coin.nValue, 0, 0, 0,
                         x.totalXDMAvailable, x.XDMFeeNeeded, id.grpID, k.pool, k.log, env)
    IN OpResult("new", id.grpID, CallerKey(b, k.res), Len(x.outputs), t, x.ub)

\* ---------------------------------------------------------------- token mint
\* MintAuthorities accepting a parent authority that lacks SUBGROUP
MintAuthorities_AnyParent(wal, grpID) ==
    LET direct == SelectSeq(wal, LAMBDA out :
                      LET tg == CTokenGroupInfo(out.scriptPubKey) IN
                      tg.associatedGroup = grpID /\ allowsMint(tg))
    IN IF Len(direct) = 0 /\ isSubgroup(grpID)
       THEN SelectSeq(wal, LAMBDA out :
                LET tg == CTokenGroupInfo(out.scriptPubKey) IN
                /\ isAuthority(tg) /\ allowsRenew(tg) /\ allowsMint(tg)
                /\ tg.associatedGroup = parentGroup(grpID))
       ELSE direct

MintAuthorities(wal, grpID) ==
    LET direct == SelectSeq(wal, LAMBDA out :
                      LET tg == CTokenGroupInfo(out.scriptPubKey) IN
                      tg.associatedGroup = grpID /\ allowsMint(tg))
    IN IF Len(direct) = 0 /\ isSubgroup(grpID)
       THEN SelectSeq(wal, LAMBDA out :
                LET tg == CTokenGroupInfo(out.scriptPubKey) IN
                /\ isAuthority(tg) /\ allowsRenew(tg) /\ allowsSubgroup(tg) /\ allowsMint(tg)
                /\ tg.associatedGroup = parentGroup(grpID))
       ELSE direct

TokenMint(wal, grpID, params, xdmFee, pool, env) ==
    LET p == ParseGroupAddrValue(grpID, params) IN
    IF p.status # "ok" \/ Len(p.outputs) = 0
    THEN OpResult("mint", grpID, Thrown("invalid", pool, << >>), 0, NoTotals, p.ub)
    ELSE
    LET auths == MintAuthorities(wal, grpID) IN
    IF Len(auths) = 0
    THEN OpResult("mint", grpID, Thrown("noauthority", pool, << >>), 0, NoTotals, p.ub)
    ELSE
    LET authority == auths[1]
        totalBchAvailable == authority.nValue
        ra == RenewAuthority(authority, p.outputs, NoKey, pool, << >>)
        totalBchNeeded == GROUPED_SATOSHI_AMT + ra.totalBchNeeded
        x == XDMFeeInputs(wal, grpID, ra.outputs, << authority >>, auths, xdmFee)
    IN
    IF x.status # "ok"
    THEN OpResult("mint", grpID,
                  CallerKey(Thrown(x.status, ra.pool, ra.log), ra.res), Len(x.outputs), NoTotals,
                  p.ub \/ x.ub)
    ELSE
    LET t == Totals(totalBchNeeded, 0, 0, x.totalXDMAvailable, x.XDMFeeNeeded)
        b == ConstructTx(wal, x.chosenCoins, x.outputs, totalBchAvailable, totalBchNeeded, 0, 0,
                         x.totalXDMAvailable, x.XDMFeeNeeded, grpID, ra.pool, ra.log, env)
    IN OpResult("mint", grpID, CallerKey(b, ra.res), Len(x.outputs), t, p.ub \/ x.ub)

\* ----------------------------------------------------- token createauthority
\* GrantingAuthorities without the test that the coin has the requested bits
GrantingAuthorities_AnyRenewable(wal, grpID, auth) ==
    SelectSeq(wal, LAMBDA out :
        LET tg == CTokenGroupInfo(out.scriptPubKey) IN
        tg.associatedGroup = grpID /\ isAuthority(tg) /\ allowsRenew(tg))

GrantingAuthorities(wal, grpID, auth) ==
    LET direct == SelectSeq(wal, LAMBDA out :
                      LET tg == CTokenGroupInfo(out.scriptPubKey) IN
                      /\ tg.associatedGroup = grpID /\ isAuthority(tg) /\ allowsRenew(tg)
                      /\ BitAnd(controllingGroupFlags(tg), auth) = auth)
    IN IF Len(direct) = 0 /\ isSubgroup(grpID)
       THEN SelectSeq(wal, LAMBDA out :
                LET tg == CTokenGroupInfo(out.scriptPubKey) IN
                /\ isAuthority(tg) /\ allowsRenew(tg) /\ allowsSubgroup(tg)
                /\ tg.associatedGroup = parentGroup(grpID)
                /\ BitAnd(controllingGroupFlags(tg), auth) = auth)
       ELSE direct

TokenCreateAuthority(wal, grpID, dst, auth, pool, env) ==
    IF ~isUserGroup(grpID) \/ dst = NoDestination
    THEN OpResult("createauthority", grpID, Thrown("invalid", pool, << >>), 0, NoTotals, FALSE)
    ELSE
    LET coins == GrantingAuthorities(wal, grpID, auth) IN
    IF Len(coins) = 0
    THEN OpResult("createauthority", grpID, Thrown("noauthority", pool, << >>), 0, NoTotals, FALSE)
    ELSE
    LET chosenCoins == << coins[1] >>
        totalBchAvailable == coins[1].nValue
        ra == RenewAuthority(chosenCoins[1], << >>, NoKey, pool, << >>)
        script == GetScriptForDestination(dst, grpID, ToSigned(auth))
        outputs == Append(ra.outputs, CRecipient(script, GROUPED_SATOSHI_AMT))
        t == Totals(ra.totalBchNeeded + GROUPED_SATOSHI_AMT, 0, 0, 0, 0)
        b == ConstructTx(wal, chosenCoins, outputs, totalBchAvailable, t.totalNeeded, 0, 0, 0, 0,
                         grpID, ra.pool, ra.log, env)
    IN OpResult("createauthority", grpID, CallerKey(b, ra.res), Len(outputs), t, FALSE)

\* ----------------------------------------------------- token dropauthorities
\* the result carries, next to the transaction, the command's flags and the fields
\* authorities_former and authorities_new of the object the command returns
\* wallet->AvailableCoins: the spendable outputs of the wallet
AvailableCoins(wal) == wal

\* KeepsAuthority without the test for a bare CTRL
KeepsAuthority_KeepsBareCtrl(authoritiesToKeep) ==
    ~(authoritiesToKeep = NONE \/ ~hasCapability(authoritiesToKeep, CTRL))

KeepsAuthority(authoritiesToKeep) ==
    ~(authoritiesToKeep = CTRL \/ authoritiesToKeep = NONE \/ ~hasCapability(authoritiesToKeep, CTRL))

TokenDropAuthorities(wal, grpID, txid, voutN, authoritiesToDrop, pool, env) ==
    IF ~isUserGroup(grpID) \/ txid = 0 \/ voutN < 0
    THEN OpResult("dropauthorities", grpID, Thrown("invalid", pool, << >>), 0, NoTotals, FALSE)
    ELSE
    LET chosenCoins == SelectSeq(AvailableCoins(wal), LAMBDA coin : coin.txid = txid /\ coin.n = voutN) IN
    IF Len(chosenCoins) = 0
    THEN OpResult("dropauthorities", grpID, Thrown("invalid", pool, << >>), 0, NoTotals, FALSE)
    ELSE
    LET script == chosenCoins[1].scriptPubKey
        tgInfo == CTokenGroupInfo(script)
        dest == ExtractDestination(script)
        authoritiesToKeep == BitAnd(controllingGroupFlags(tgInfo), BitNot(authoritiesToDrop))
        outputs == IF KeepsAuthority(authoritiesToKeep)
                   THEN << CRecipient(GetScriptForDestination(dest, grpID, ToSigned(authoritiesToKeep)),
                                      GROUPED_SATOSHI_AMT) >>
                   ELSE << >>
        t == Totals(GROUPED_SATOSHI_AMT * Len(outputs), 0, 0, 0, 0)
        b == ConstructTx(wal, chosenCoins, outputs, 0, t.totalNeeded, 0, 0, 0, 0, grpID, pool, << >>, env)
    IN OpResult("dropauthorities", grpID, b, Len(outputs), t, FALSE)
           @@ [authoritiesToDrop |-> authoritiesToDrop,
               authorities_former |-> controllingGroupFlags(tgInfo),
               authorities_new |-> authoritiesToKeep]

\* ------------------------------------------------------- inputs of the model

\* outputs a wallet can hold
Token(grp, qty, dest) == [nValue |-> 1, scriptPubKey |-> GetScriptForDestination(dest, grp, qty)]
Authority(grp, flags, dest) ==
    [nValue |-> 1, scriptPubKey |-> GetScriptForDestination(dest, grp, ToSigned(BitOr(CTRL, flags)))]
Plain(value, dest) == [nValue |-> value, scriptPubKey |-> GetScriptForDestination(dest, NoGroup, 0)]

\* the wallet whose i-th coin is output 0 of transaction i
MkWallet(outs) == [i \in 1..Len(outs) |-> COutput(i, 0, outs[i].nValue, outs[i].scriptPubKey)]
RECURSIVE SeqsUpTo(_, _)
SeqsUpTo(S, n) ==
    IF n = 0 THEN {<< >>}
    ELSE LET shorter == SeqsUpTo(S, n - 1) IN
         shorter \cup {Append(q, x) : q \in {r \in shorter : Len(r) = n - 1}, x \in S}

NoCall == [fn |-> "none"]
NoOp == [op |-> "none"]
OldKey == 40                         \* a key of the wallet that left the key pool long ago
OtherKey == 41                       \* another such key
OldScript == 42                      \* a script the wallet can redeem

\* ---------------------------------------------------- cs_main and cs_wallet
\* RPC threads that can be inside a token operation at the same time, and the calls they
\* make in one behaviour
NThreads == 2
MaxCalls == 3
Threads == 1..NThreads

\* a CCriticalSection is a recursive mutex: its owner (0: nobody) and how often the owner
\* has entered it
FreeLock == [owner |-> 0, count |-> 0]
Acquire(l, t) == [owner |-> t, count |-> l.count + 1]
Release(l) == IF l.count = 1 THEN FreeLock ELSE [l EXCEPT !.count = l.count - 1]
IdleThread == [op |-> "idle", pc |-> 0, reading |-> FALSE, seen |-> {}]
\* version counts the transactions committed so far: the snapshot a read observes
NoRpc == [cs_main |-> FreeLock, cs_wallet |-> FreeLock, version |-> 0,
          thr |-> [t \in Threads |-> IdleThread]]

\* LOCK2(cs_main, wallet->cs_wallet), and LOCK(cs_main); LOCK(wallet->cs_wallet) of mint
\* (lines 1466-1467): cs_main is entered first; the locks are left when the scope ends
LOCK2 == << "lock_main", "lock_wallet" >>
\* CWallet::FilterCoins enters both locks itself for the scan of the wallet's coins and
\* leaves them before it returns
FilterCoinsSteps == << "lock_main", "lock_wallet", "read_wallet", "unlock_wallet", "unlock_main" >>
\* ConstructTx, lines 514-573: the fee coins are looked up, then the transaction committed
ConstructTxSteps == FilterCoinsSteps \o << "commit" >>
\* tokenGroupManager->GetXDMFee(chainActive.Tip(), XDMFeeNeeded)
GetXDMFeeSteps == << "read_chain" >>

\* what an operation does to the shared state, in the order of its code (the longest path:
\* the group is the one fees are charged for, and nothing throws)
PublicOps == {"new", "mint", "melt", "send", "createauthority", "dropauthorities",
              "balance", "listauthorities"}
Program(op) ==
    CASE op = "new" ->              \* lines 1197, 1208, 1277, 1286, 1308
           LOCK2 \o FilterCoinsSteps \o GetXDMFeeSteps \o FilterCoinsSteps \o ConstructTxSteps
      [] op = "mint" ->             \* lines 1466-1467, 1491, 1546, 1555, 1579
           LOCK2 \o FilterCoinsSteps \o GetXDMFeeSteps \o FilterCoinsSteps \o ConstructTxSteps
      [] op = "melt" ->             \* GroupMelt: lines 587, 592, 634, 657
           LOCK2 \o FilterCoinsSteps \o FilterCoinsSteps \o ConstructTxSteps
      [] op = "send" ->             \* line 1699, then GroupSend: lines 669, 683, 705, 734
           GetXDMFeeSteps \o LOCK2 \o FilterCoinsSteps \o FilterCoinsSteps \o ConstructTxSteps
      [] op = "createauthority" ->  \* lines 963, 1008, 1061
           LOCK2 \o FilterCoinsSteps \o ConstructTxSteps
      [] op = "dropauthorities" ->  \* lines 1075, 1110 (AvailableCoins), 1190
           LOCK2 \o << "read_wallet" >> \o ConstructTxSteps
      [] op = "balance" ->          \* lines 1594 / 1633: the aggregation function only
           FilterCoinsSteps
      [] OTHER ->                   \* listauthorities, lines 1651 / 1658
           FilterCoinsSteps

Holds(l, t) == l.owner = t
\* the instruction thread t is about to execute ("return" after the last one)
NextStep(t) ==
    LET th == rpc.thr[t] IN
    IF th.op = "idle" THEN "none"
    ELSE IF th.pc > Len(Program(th.op)) THEN "return" ELSE Program(th.op)[th.pc]
Advance(th) == [th EXCEPT !.pc = th.pc + 1]
\* a read of the coins or of the chain: the thread has started reading and has observed
\* the current snapshot
Observe(th) == [th EXCEPT !.pc = th.pc + 1, !.reading = TRUE, !.seen = th.seen \cup {rpc.version}]

\* ========================================================================
\* SpecAgg: the aggregation functions applied to wallets of every shape
\* ========================================================================
AggOutputs ==
    { Token(G1, 1, KeyID(OldKey)), Token(G1, 3, ScriptID(OldScript)),
      Token(G1, MaxAmount - 1, KeyID(OldKey)), Token(G1, MaxAmount, KeyID(OtherKey)),
      Authority(G1, MINT + CCHILD, KeyID(OldKey)), Token(G2, 2, KeyID(OldKey)),
      Plain(5, KeyID(OldKey)) }
AggGroups == {G1, G2, Sub1}
AggDests == {NoDestination, KeyID(OldKey), ScriptID(OldScript)}
\* what the caller's containers hold before the call
PriorBalances == {EmptyMap, MapPut(EmptyMap, G1, 5)}
PriorAuthorities == {EmptyMap, MapPut(EmptyMap, G2, CTRL + MELT)}

InitAgg ==
    /\ wallet \in {MkWallet(outs) : outs \in SeqsUpTo(AggOutputs, MaxWallet)}
    /\ keypool = {}
    /\ keptKeys = {}
    /\ nextTxid = 0
    /\ nOps = 0
    /\ last = NoOp
    /\ call = NoCall
    /\ rpc = NoRpc

CallGetAllGroupBalances ==
    /\ \E prior \in PriorBalances :
          call' = [fn |-> "GetAllGroupBalances", prior |-> prior,
                   balances |-> GetAllGroupBalances(wallet, prior)]
    /\ UNCHANGED << wallet, keypool, keptKeys, nextTxid, nOps, last, rpc >>

CallGetAllGroupBalancesAndAuthorities ==
    /\ \E prior \in PriorBalances, priorAuth \in PriorAuthorities :
          LET r == GetAllGroupBalancesAndAuthorities(wallet, prior, priorAuth) IN
          call' = [fn |-> "GetAllGroupBalancesAndAuthorities", prior |-> prior,
                   priorAuth |-> priorAuth, balances |-> r.balances, authorities |-> r.authorities]
    /\ UNCHANGED << wallet, keypool, keptKeys, nextTxid, nOps, last, rpc >>

CallGetGroupBalance ==
    /\ \E grpID \in AggGroups, dest \in AggDests :
          call' = [fn |-> "GetGroupBalance", grpID |-> grpID, dest |-> dest,
                   balance |-> GetGroupBalance(grpID, dest, wallet)]
    /\ UNCHANGED << wallet, keypool, keptKeys, nextTxid, nOps, last, rpc >>

CallGetGroupBalanceAndAuthorities ==
    /\ \E grpID \in AggGroups, dest \in AggDests :
          LET r == GetGroupBalanceAndAuthorities(grpID, dest, wallet) IN
          call' = [fn |-> "GetGroupBalanceAndAuthorities", grpID |-> grpID, dest |-> dest,
                   balance |-> r.balance, authorities |-> r.authorities]
    /\ UNCHANGED << wallet, keypool, keptKeys, nextTxid, nOps, last, rpc >>

NextAgg ==
    \/ CallGetAllGroupBalances
    \/ CallGetAllGroupBalancesAndAuthorities
    \/ CallGetGroupBalance
    \/ CallGetGroupBalanceAndAuthorities

SpecAgg == InitAgg /\ [][NextAgg]_vars

\* ========================================================================
\* SpecSel: the coin selection functions applied to coin lists of every shape
\* ========================================================================
\* a coin of the list carries the amount both as its value and as its token quantity
SelAmounts == {1, 2, 3, MaxAmount - 1, MaxAmount}
SelTargets == {0, 1, 2, 3, MaxAmount - 1, MaxAmount}
SelOutput(a) == [nValue |-> a, scriptPubKey |-> GetScriptForDestination(KeyID(OldKey), G1, a)]

\* what a build makes of a signed overflow: the wrapped sum, or a trap
Outcomes(ub) == IF ub THEN {"wrap", "trap"} ELSE {"ok"}

InitSel ==
    /\ wallet \in {MkWallet([i \in 1..Len(as) |-> SelOutput(as[i])]) : as \in SeqsUpTo(SelAmounts, MaxSel)}
    /\ keypool = {}
    /\ keptKeys = {}
    /\ nextTxid = 0
    /\ nOps = 0
    /\ last = NoOp
    /\ call = NoCall
    /\ rpc = NoRpc

CallNearestGreaterCoin ==
    /\ \E amt \in SelTargets :
          LET r == NearestGreaterCoin(wallet, amt, NullCoin) IN
          call' = [fn |-> "NearestGreaterCoin", amt |-> amt, outcome |-> "ok", ret |-> r.ret,
                   chosenCoin |-> r.chosenCoin]
    /\ UNCHANGED << wallet, keypool, keptKeys, nextTxid, nOps, last, rpc >>

CallCoinSelection ==
    /\ \E amt \in SelTargets :
          LET r == CoinSelection(wallet, amt, << >>) IN
          \E outcome \in Outcomes(r.ub) :
             call' = [fn |-> "CoinSelection", amt |-> amt, outcome |-> outcome,
                      ret |-> IF outcome = "trap" THEN 0 ELSE r.cur,
                      chosenCoins |-> IF outcome = "trap" THEN << >> ELSE r.chosenCoins]
    /\ UNCHANGED << wallet, keypool, keptKeys, nextTxid, nOps, last, rpc >>

CallGroupCoinSelection ==
    /\ \E amt \in SelTargets :
          LET r == GroupCoinSelection(wallet, amt, << >>) IN
          \E outcome \in Outcomes(r.ub) :
             call' = [fn |-> "GroupCoinSelection", amt |-> amt, outcome |-> outcome,
                      ret |-> IF outcome = "trap" THEN 0 ELSE r.cur,
                      chosenCoins |-> IF outcome = "trap" THEN << >> ELSE r.chosenCoins]
    /\ UNCHANGED << wallet, keypool, keptKeys, nextTxid, nOps, last, rpc >>

NextSel ==
    \/ CallNearestGreaterCoin
    \/ CallCoinSelection
    \/ CallGroupCoinSelection

SpecSel == InitSel /\ [][NextSel]_vars

\* ========================================================================
\* Spec: the token operations applied to a wallet
\* ========================================================================
MaxKeys == 3
Recipient == KeyID(50)               \* somebody else's address
WalletKeys == {OldKey, OtherKey} \cup (1..MaxKeys)
\* ::IsMine: what the wallet can spend
IsMine(script) ==
    LET dest == ExtractDestination(script) IN
    \/ dest.type = "key" /\ dest.id \in WalletKeys
    \/ dest.type = "script" /\ dest.id = OldScript

\* CWallet::CommitTransaction when it succeeds: the spent coins leave the wallet, the
\* outputs the wallet can spend enter it
RECURSIVE MineFrom(_, _, _)
MineFrom(vout, i, txid) ==
    IF i > Len(vout) THEN << >>
    ELSE (IF IsMine(vout[i].scriptPubKey)
          THEN << COutput(txid, i - 1, vout[i].nValue, vout[i].scriptPubKey) >> ELSE << >>)
         \o MineFrom(vout, i + 1, txid)
CommitTransaction(wal, r, txid) ==
    SelectSeq(wal, LAMBDA coin : \A j \in 1..Len(r.vin) : r.vin[j] # GetOutPoint(coin))
        \o MineFrom(r.vout, 1, txid)

KeptBy(log) == {log[i].key : i \in {j \in 1..Len(log) : log[j].e = "keep"}}

\* the outputs the wallets of Spec are taken from: a wallet holds up to MaxWallet of
\* them, in this order
WalletOutputs ==
    << Plain(6, KeyID(OldKey)), Token(G1, 2, KeyID(OldKey)),
       Authority(G1, MELT, KeyID(OtherKey)), Plain(30, KeyID(OtherKey)),
       Token(G1, 5, KeyID(OldKey)), Authority(G1, MINT + MELT + CCHILD, KeyID(OldKey)),
       Token(XDM, 10, KeyID(OldKey)) >>
\* the elements of s at the indices of I, in the order of s
RECURSIVE Pick(_, _, _)
Pick(s, I, i) ==
    IF i > Len(s) THEN << >>
    ELSE (IF i \in I THEN << s[i] >> ELSE << >>) \o Pick(s, I, i + 1)
SubSeqsUpTo(s, n) == {Pick(s, I, 1) : I \in {J \in SUBSET (1..Len(s)) : Cardinality(J) <= n}}
KeyPools == {{}, {1}, 1..MaxKeys}
\* what SignTransaction and CommitTransaction can answer
AllOk == [signOk |-> TRUE, commitOk |-> TRUE]
Envs == {AllOk, [signOk |-> FALSE, commitOk |-> TRUE], [signOk |-> TRUE, commitOk |-> FALSE]}
\* the answers that matter to an operation, r being its result when both accept: an
\* operation that fails before it signs never asks
EnvsFor(r) == IF r.status = "ok" THEN Envs ELSE {AllOk}
XDMFees == {0, 1}
Payment(dst, amount) == [dst |-> dst, amount |-> amount]
\* the command lines of the operations
\* (xdmFee is what GetXDMFee answers; send asks for it only when it sends XDM)
SendArgs ==
    {[grpID |-> G1, xdmFee |-> 0, params |-> p] :
        p \in { << Payment(Recipient, 2) >>, << Payment(Recipient, 3), Payment(KeyID(OtherKey), 1) >>,
                << Payment(Recipient, 8) >>, << Payment(Recipient, 0) >> }}
    \cup {[grpID |-> XDM, xdmFee |-> f, params |-> p] :
             f \in XDMFees, p \in { << Payment(Recipient, 2) >>, << Payment(Recipient, 10) >> }}
MintArgs ==
    {[grpID |-> G1, xdmFee |-> f, params |-> << Payment(Recipient, 4) >>] : f \in XDMFees}
    \cup { [grpID |-> G1, xdmFee |-> 0, params |-> << Payment(NoDestination, 4) >>],
           [grpID |-> Sub1, xdmFee |-> 0, params |-> << Payment(Recipient, 4) >>] }
MeltArgs ==
    {[grpID |-> G1, totalNeeded |-> q] : q \in {0, 6, 8}}
    \cup {[grpID |-> NoGroup, totalNeeded |-> 1]}
CreateAuthorityArgs ==
    {[grpID |-> G1, dst |-> Recipient, auth |-> a] : a \in {CTRL + CCHILD + MINT, ALL}}
    \cup { [grpID |-> G1, dst |-> NoDestination, auth |-> ALL],
           [grpID |-> Sub1, dst |-> Recipient, auth |-> CTRL + MELT] }
DropAuthoritiesArgs ==
    {[grpID |-> G1, txid |-> t, authoritiesToDrop |-> d] : t \in 0..MaxWallet, d \in {MELT, ALL}}
    \cup {[grpID |-> G2, txid |-> 1, authoritiesToDrop |-> MINT]}
\* ParseGroupDescParams: ticker, name, decimal position, URL, document hash (a uint256)
TokenDesc == << << 84, 75, 78 >>, << 78, 97, 109, 101 >>, << 2 >>, << 104, 116, 116, 112, 58, 47, 47, 120 >>, [i \in 1..32 |-> 0] >>

Init ==
    /\ wallet \in {MkWallet(outs) : outs \in SubSeqsUpTo(WalletOutputs, MaxWallet)}
    /\ keypool \in KeyPools
    /\ keptKeys = {}
    /\ nextTxid = Len(wallet) + 1
    /\ nOps = 0
    /\ last = NoOp
    /\ call = NoCall
    /\ rpc = NoRpc

\* the effect of one operation whose result is r; an operation that ran into signed
\* overflow either carried on with the wrapped value or was stopped (an action adds to r
\* what it was called with: env, the answers of SignTransaction and CommitTransaction)
Apply(r) ==
    /\ nOps' = nOps + 1
    /\ \E outcome \in Outcomes(r.ub) :
          IF outcome = "trap"
          THEN /\ last' = [op |-> r.op, status |-> "trap", committed |-> FALSE]
               /\ UNCHANGED << wallet, keypool, keptKeys, nextTxid >>
          ELSE /\ last' = r
               /\ wallet' = IF r.committed THEN CommitTransaction(wallet, r, nextTxid) ELSE wallet
               /\ nextTxid' = IF r.committed THEN nextTxid + 1 ELSE nextTxid
               /\ keypool' = r.pool
               /\ keptKeys' = keptKeys \cup KeptBy(r.log)
    /\ UNCHANGED << call, rpc >>

New ==
    /\ nOps < MaxOps
    /\ \E mode \in {"none", "addr", "desc"}, xdmFee \in XDMFees :
          \E ok \in {TokenNew(wallet, mode, Recipient, TokenDesc, xdmFee, keypool, AllOk)} :
              \E env \in EnvsFor(ok) :
                  \E r \in {IF env = AllOk THEN ok ELSE TokenNew(wallet, mode, Recipient, TokenDesc, xdmFee, keypool, env)} : Apply(r @@ [env |-> env])

Mint ==
    /\ nOps < MaxOps
    /\ \E a \in MintArgs :
          \E ok \in {TokenMint(wallet, a.grpID, a.params, a.xdmFee, keypool, AllOk)} :
              \E env \in EnvsFor(ok) :
                  \E r \in {IF env = AllOk THEN ok ELSE TokenMint(wallet, a.grpID, a.params, a.xdmFee, keypool, env)} : Apply(r @@ [env |-> env])

Melt ==
    /\ nOps < MaxOps
    /\ \E a \in MeltArgs :
          \E ok \in {TokenMelt(wallet, a.grpID, a.totalNeeded, keypool, AllOk)} :
              \E env \in EnvsFor(ok) :
                  \E r \in {IF env = AllOk THEN ok ELSE TokenMelt(wallet, a.grpID, a.totalNeeded, keypool, env)} :
                      Apply(r @@ [qty |-> a.totalNeeded, env |-> env])

Send ==
    /\ nOps < MaxOps
    /\ \E a \in SendArgs :
          \E ok \in {TokenSend(wallet, a.grpID, a.params, a.xdmFee, keypool, AllOk)} :
              \E env \in EnvsFor(ok) :
                  \E r \in {IF env = AllOk THEN ok ELSE TokenSend(wallet, a.grpID, a.params, a.xdmFee, keypool, env)} : Apply(r @@ [env |-> env])

CreateAuthority ==
    /\ nOps < MaxOps
    /\ \E a \in CreateAuthorityArgs :
          \E ok \in {TokenCreateAuthority(wallet, a.grpID, a.dst, a.auth, keypool, AllOk)} :
              \E env \in EnvsFor(ok) :
                  \E r \in {IF env = AllOk THEN ok ELSE TokenCreateAuthority(wallet, a.grpID, a.dst, a.auth, keypool, env)} : Apply(r @@ [env |-> env])

DropAuthorities ==
    /\ nOps < MaxOps
    /\ \E a \in DropAuthoritiesArgs :
          \E ok \in {TokenDropAuthorities(wallet, a.grpID, a.txid, 0, a.authoritiesToDrop, keypool, AllOk)} :
              \E env \in EnvsFor(ok) :
                  \E r \in {IF env = AllOk THEN ok ELSE TokenDropAuthorities(wallet, a.grpID, a.txid, 0, a.authoritiesToDrop, keypool, env)} : Apply(r @@ [env |-> env])

Next == New \/ Mint \/ Melt \/ Send \/ CreateAuthority \/ DropAuthorities
Spec == Init /\ [][Next]_vars

\* ========================================================================
\* SpecSend: token send from wallets that hold very large token amounts
\* ========================================================================
MaxSendWallet == 5
LargeOutputs ==
    { Token(G1, MaxAmount - 1, KeyID(OldKey)), Token(G1, MaxAmount, KeyID(OldKey)),
      Token(G1, 3, KeyID(OtherKey)), Token(XDM, MaxAmount, KeyID(OldKey)),
      Plain(30, KeyID(OldKey)) }
LargeParams ==
    { << Payment(Recipient, MaxAmount) >>, << Payment(Recipient, 2) >>,
      << Payment(Recipient, MaxAmount), Payment(Recipient, 1) >> }

InitSend ==
    /\ wallet \in {MkWallet(outs) : outs \in SeqsUpTo(LargeOutputs, MaxSendWallet)}
    /\ keypool = 1..MaxKeys
    /\ keptKeys = {}
    /\ nextTxid = Len(wallet) + 1
    /\ nOps = 0
    /\ last = NoOp
    /\ call = NoCall
    /\ rpc = NoRpc

SendLarge ==
    /\ nOps < MaxOps
    /\ \E grpID \in {G1, XDM}, params \in LargeParams, xdmFee \in XDMFees :
          \E r \in {TokenSend(wallet, grpID, params, xdmFee, keypool, AllOk)} : Apply(r)

NextSend == SendLarge
SpecSend == InitSend /\ [][NextSend]_vars

\* ========================================================================
\* SpecChange: GroupSend called with a fee in the fee token, for any group
\* ========================================================================
ChangeOutputs ==
    { Token(G1, 5, KeyID(OldKey)), Token(G1, 3, KeyID(OtherKey)), Token(XDM, 10, KeyID(OldKey)),
      Token(XDM, 1, KeyID(OldKey)), Plain(30, KeyID(OldKey)) }
ChangeParams == { << Payment(Recipient, 2) >>, << Payment(Recipient, 5) >> }

InitChange ==
    /\ wallet \in {MkWallet(outs) : outs \in SeqsUpTo(ChangeOutputs, MaxWallet)}
    /\ keypool \in KeyPools
    /\ keptKeys = {}
    /\ nextTxid = Len(wallet) + 1
    /\ nOps = 0
    /\ last = NoOp
    /\ call = NoCall
    /\ rpc = NoRpc

\* lines 662-736, with the fee payment EnsureXDMFee adds (as line 1703 does)
CallGroupSend ==
    /\ nOps < MaxOps
    /\ \E grpID \in {G1, XDM}, params \in ChangeParams, xdmFee \in XDMFees :
          LET p == ParseGroupAddrValue(grpID, params) IN
          \E r \in {GroupSend(wallet, grpID, EnsureXDMFee(p.outputs, xdmFee), p.totalValue, xdmFee,
                              keypool, AllOk, p.ub)} : Apply(r)

NextChange == CallGroupSend
SpecChange == InitChange /\ [][NextChange]_vars

\* ========================================================================
\* SpecSub: mint, melt and createauthority on a group and on one of its subgroups
\* ========================================================================
\* low bits of an authority's word, as findGroupId leaves them there (line 1263)
AuthorityNonce == 3
\* the outputs the wallets of SpecSub are taken from, in this order
SubOutputs ==
    << Authority(G1, MINT + MELT + CCHILD + SUBGROUP, KeyID(OldKey)),
       Authority(G1, MINT + MELT + SUBGROUP, KeyID(OtherKey)),
       Authority(Sub1, MINT + CCHILD, KeyID(OldKey)),
       Token(Sub1, 5, KeyID(OldKey)),
       Plain(30, KeyID(OtherKey)),
       Authority(G1, MINT + MELT + CCHILD + AuthorityNonce, KeyID(OldKey)),
       Authority(Sub1, MELT, KeyID(OtherKey)),
       Token(XDM, 10, KeyID(OldKey)) >>
SubGroups == {G1, Sub1}
SubMintArgs ==
    {[grpID |-> g, xdmFee |-> f, params |-> << Payment(Recipient, 4) >>] : g \in SubGroups, f \in XDMFees}
SubMeltArgs == {[grpID |-> g, totalNeeded |-> q] : g \in SubGroups, q \in {0, 3}}
SubCreateAuthorityArgs ==
    {[grpID |-> g, dst |-> Recipient, auth |-> a] :
        g \in SubGroups, a \in {CTRL + CCHILD + MINT, CTRL + MELT}}

InitSub ==
    /\ wallet \in {MkWallet(outs) : outs \in SubSeqsUpTo(SubOutputs, MaxWallet)}
    /\ keypool \in KeyPools
    /\ keptKeys = {}
    /\ nextTxid = Len(wallet) + 1
    /\ nOps = 0
    /\ last = NoOp
    /\ call = NoCall
    /\ rpc = NoRpc

SubMint ==
    /\ nOps < MaxOps
    /\ \E a \in SubMintArgs :
          \E r \in {TokenMint(wallet, a.grpID, a.params, a.xdmFee, keypool, AllOk)} : Apply(r)

SubMelt ==
    /\ nOps < MaxOps
    /\ \E a \in SubMeltArgs :
          \E r \in {TokenMelt(wallet, a.grpID, a.totalNeeded, keypool, AllOk)} : Apply(r)

SubCreateAuthority ==
    /\ nOps < MaxOps
    /\ \E a \in SubCreateAuthorityArgs :
          \E r \in {TokenCreateAuthority(wallet, a.grpID, a.dst, a.auth, keypool, AllOk)} :
              Apply(r @@ [auth |-> a.auth])

NextSub == SubMint \/ SubMelt \/ SubCreateAuthority
SpecSub == InitSub /\ [][NextSub]_vars

\* ========================================================================
\* SpecMelt: token melt from wallets that hold very large token amounts
\* ========================================================================
MaxMeltCoins == 4
MeltAmounts == {MaxAmount - 1, MaxAmount, 3}
MeltQuantities == {0, 2, MaxAmount}
\* a melt authority, a coin for the fee, then the token coins
MeltWallet(qs) ==
    MkWallet(<< Authority(G1, MELT + CCHILD, KeyID(OldKey)), Plain(30, KeyID(OtherKey)) >>
                 \o [i \in 1..Len(qs) |-> Token(G1, qs[i], KeyID(OldKey))])

InitMelt ==
    /\ wallet \in {MeltWallet(qs) : qs \in SeqsUpTo(MeltAmounts, MaxMeltCoins)}
    /\ keypool = 1..MaxKeys
    /\ keptKeys = {}
    /\ nextTxid = Len(wallet) + 1
    /\ nOps = 0
    /\ last = NoOp
    /\ call = NoCall
    /\ rpc = NoRpc

MeltLarge ==
    /\ nOps < MaxOps
    /\ \E q \in MeltQuantities :
          \E r \in {TokenMelt(wallet, G1, q, keypool, AllOk)} : Apply(r @@ [qty |-> q])

NextMelt == MeltLarge
SpecMelt == InitMelt /\ [][NextMelt]_vars

\* ========================================================================
\* SpecLock: RPC threads running token operations at the same time
\* ========================================================================
InitLock ==
    /\ wallet = << >>
    /\ keypool = {}
    /\ keptKeys = {}
    /\ nextTxid = 1
    /\ nOps = 0
    /\ last = NoOp
    /\ call = NoCall
    /\ rpc = NoRpc

\* an RPC thread enters token() with one of the public operations
CallOp(t) ==
    /\ nOps < MaxCalls
    /\ rpc.thr[t].op = "idle"
    /\ \E op \in PublicOps : rpc' = [rpc EXCEPT !.thr[t] = [IdleThread EXCEPT !.op = op, !.pc = 1]]
    /\ nOps' = nOps + 1
    /\ UNCHANGED << wallet, keypool, keptKeys, nextTxid, last, call >>

\* the thread enters cs_main: it waits while another thread owns it
LockMain(t) ==
    /\ NextStep(t) = "lock_main"
    /\ rpc.cs_main.owner \in {0, t}
    /\ rpc' = [rpc EXCEPT !.cs_main = Acquire(rpc.cs_main, t), !.thr[t] = Advance(rpc.thr[t])]
    /\ UNCHANGED << wallet, keypool, keptKeys, nextTxid, nOps, last, call >>

LockWallet(t) ==
    /\ NextStep(t) = "lock_wallet"
    /\ rpc.cs_wallet.owner \in {0, t}
    /\ rpc' = [rpc EXCEPT !.cs_wallet = Acquire(rpc.cs_wallet, t), !.thr[t] = Advance(rpc.thr[t])]
    /\ UNCHANGED << wallet, keypool, keptKeys, nextTxid, nOps, last, call >>

UnlockWallet(t) ==
    /\ NextStep(t) = "unlock_wallet"
    /\ rpc' = [rpc EXCEPT !.cs_wallet = Release(rpc.cs_wallet), !.thr[t] = Advance(rpc.thr[t])]
    /\ UNCHANGED << wallet, keypool, keptKeys, nextTxid, nOps, last, call >>

UnlockMain(t) ==
    /\ NextStep(t) = "unlock_main"
    /\ rpc' = [rpc EXCEPT !.cs_main = Release(rpc.cs_main), !.thr[t] = Advance(rpc.thr[t])]
    /\ UNCHANGED << wallet, keypool, keptKeys, nextTxid, nOps, last, call >>

\* chainActive.Tip(): nothing stops it when the thread does not own cs_main
ReadChain(t) ==
    /\ NextStep(t) = "read_chain"
    /\ rpc' = [rpc EXCEPT !.thr[t] = Observe(rpc.thr[t])]
    /\ UNCHANGED << wallet, keypool, keptKeys, nextTxid, nOps, last, call >>

\* the scan of the wallet's coins
ReadWallet(t) ==
    /\ NextStep(t) = "read_wallet"
    /\ rpc' = [rpc EXCEPT !.thr[t] = Observe(rpc.thr[t])]
    /\ UNCHANGED << wallet, keypool, keptKeys, nextTxid, nOps, last, call >>

\* CommitTransaction: the coins change, which is the thread's own doing
CommitStep(t) ==
    /\ NextStep(t) = "commit"
    /\ rpc' = [rpc EXCEPT !.version = rpc.version + 1,
                          !.thr[t] = [rpc.thr[t] EXCEPT !.pc = rpc.thr[t].pc + 1, !.reading = TRUE,
                                                        !.seen = {rpc.version + 1}]]
    /\ nextTxid' = nextTxid + 1
    /\ UNCHANGED << wallet, keypool, keptKeys, nOps, last, call >>

\* the operation returns: the scope of its LOCK2 ends, which leaves the locks it still owns
Return(t) ==
    /\ NextStep(t) = "return"
    /\ rpc' = [rpc EXCEPT !.cs_main = IF Holds(rpc.cs_main, t) THEN FreeLock ELSE rpc.cs_main,
                          !.cs_wallet = IF Holds(rpc.cs_wallet, t) THEN FreeLock ELSE rpc.cs_wallet,
                          !.thr[t] = IdleThread]
    /\ last' = [op |-> rpc.thr[t].op]
    /\ UNCHANGED << wallet, keypool, keptKeys, nextTxid, nOps, call >>

NextLock ==
    \E t \in Threads :
        \/ CallOp(t)
        \/ LockMain(t)
        \/ LockWallet(t)
        \/ UnlockWallet(t)
        \/ UnlockMain(t)
        \/ ReadChain(t)
        \/ ReadWallet(t)
        \/ CommitStep(t)
        \/ Return(t)
SpecLock == InitLock /\ [][NextLock]_vars

\* ========================================================================
\* SpecDest: the single-group aggregation functions with a destination filter
\* ========================================================================
\* a grouped output that pays to neither a key hash nor a script hash: ExtractDestination
\* finds no destination in it
BareOutput(grp, qty) == [nValue |-> 1, scriptPubKey |-> GroupPrefix(grp, qty) \o << Op("OP_CHECKSIG") >>]
DestOutputs ==
    { Token(G1, 1, KeyID(OldKey)), Token(G1, 3, ScriptID(OldScript)), Token(G1, 2, KeyID(OtherKey)),
      Authority(G1, MINT + CCHILD, KeyID(OldKey)), Authority(G1, MELT, ScriptID(OldScript)),
      BareOutput(G1, 4), Token(G2, 2, KeyID(OldKey)) }

InitDest ==
    /\ wallet \in {MkWallet(outs) : outs \in SeqsUpTo(DestOutputs, MaxWallet)}
    /\ keypool = {}
    /\ keptKeys = {}
    /\ nextTxid = 0
    /\ nOps = 0
    /\ last = NoOp
    /\ call = NoCall
    /\ rpc = NoRpc

NextDest == CallGetGroupBalance \/ CallGetGroupBalanceAndAuthorities
SpecDest == InitDest /\ [][NextDest]_vars

\* ========================================================================
\* SpecScript: GetScriptForDestination on groups, words and destinations
\* ========================================================================
ScriptGroups == {NoGroup, G1, G2, XDM, Sub1}
ScriptWords ==
    {0, 1, 5, 255, 256, MaxAmount, MinAmount, 0 - 1, ToSigned(CTRL + MINT), ToSigned(ALL),
     ToSigned(ALL + 3)}
ScriptDests == {NoDestination, KeyID(1), KeyID(OldKey), ScriptID(1), ScriptID(OldScript)}

CallGetScriptForDestination ==
    /\ \E dest \in ScriptDests, group \in ScriptGroups, amount \in ScriptWords :
          call' = [fn |-> "GetScriptForDestination", dest |-> dest, group |-> group,
                   amount |-> amount, script |-> GetScriptForDestination(dest, group, amount)]
    /\ UNCHANGED << wallet, keypool, keptKeys, nextTxid, nOps, last, rpc >>

InitScript ==
    /\ wallet = MkWallet(<< >>)
    /\ keypool = {}
    /\ keptKeys = {}
    /\ nextTxid = 0
    /\ nOps = 0
    /\ last = NoOp
    /\ call = NoCall
    /\ rpc = NoRpc

NextScript == CallGetScriptForDestination
SpecScript == InitScript /\ [][NextScript]_vars

\* ========================================================================
\* SpecId: token subgroup on wallets of every shape
\* ========================================================================
IdParents == {NoGroup, G1, G2, XDM, Sub1}
IdPostfixes ==
    {NumPostfix(7), NumPostfix(0), StrPostfix(<< >>), StrPostfix(<< 97 >>), StrPostfix(<< 97, 98 >>),
     StrPostfix(<< 55 >>), StrPostfix(<< 49, 50 >>)}

CallSubgroup ==
    /\ \E grpID \in IdParents, p \in IdPostfixes :
          LET r == TokenSubgroup(grpID, p) IN
          call' = [fn |-> "subgroup", grpID |-> grpID, postfix |-> p, status |-> r.status,
                   subgrpID |-> r.subgrpID]
    /\ UNCHANGED << wallet, keypool, keptKeys, nextTxid, nOps, last, rpc >>

NextId == CallSubgroup
SpecId == Init /\ [][NextId]_vars

\* ========================================================================
\* Properties of the aggregation functions (checked under SpecAgg)
\* ========================================================================
\* the arithmetic sum of the quantities of the non-authority outputs of group g
\* (paying to dest, when a destination is given)
RECURSIVE TokenSum(_, _, _)
TokenSum(wal, g, dest) ==
    IF Len(wal) = 0 THEN 0
    ELSE LET tg == CTokenGroupInfo(wal[1].scriptPubKey)
             counts == /\ tg.associatedGroup = g
                       /\ ~isAuthority(tg)
                       /\ (dest = NoDestination \/ ExtractDestination(wal[1].scriptPubKey) = dest)
         IN (IF counts THEN tg.quantity ELSE 0) + TokenSum(Tail(wal), g, dest)

IsAggCall == call.fn \in {"GetAllGroupBalances", "GetAllGroupBalancesAndAuthorities",
                          "GetGroupBalance", "GetGroupBalanceAndAuthorities"}
IsAllGroupsCall == call.fn \in {"GetAllGroupBalances", "GetAllGroupBalancesAndAuthorities"}
\* what the call started from, what it reports and what the coins add up to, for group g
AggStart(g) == IF IsAllGroupsCall THEN MapGet(call.prior, g) ELSE 0
AggReported(g) == IF IsAllGroupsCall THEN MapGet(call.balances, g) ELSE call.balance
AggSum(g) == IF IsAllGroupsCall THEN TokenSum(wallet, g, NoDestination)
             ELSE TokenSum(wallet, g, call.dest)
AggGroupsOf == IF IsAllGroupsCall THEN AggGroups ELSE {call.grpID}

\* C1: below the saturation limit the balance reported for a group is the arithmetic
\* sum of the quantities of its non-authority outputs (on top of what the caller's map
\* held: nothing for a fresh map); an authority's flag word is never added and an
\* untagged output is booked under no group.
C1_BalanceIsSumOfTokenQuantities ==
    IsAggCall =>
        /\ \A g \in AggGroupsOf :
              AggStart(g) + AggSum(g) <= MaxAmount => AggReported(g) = AggStart(g) + AggSum(g)
        /\ IsAllGroupsCall => NoGroup \notin DOMAIN call.balances

C1_Witness ==
    /\ call.fn = "GetGroupBalanceAndAuthorities"
    /\ call.grpID = G1
    /\ call.dest = NoDestination
    /\ call.balance = 3
    /\ hasCapability(call.authorities, CTRL)
    /\ \E i \in 1..Len(wallet) : CTokenGroupInfo(wallet[i].scriptPubKey).associatedGroup = NoGroup

\* C7: a balance never wraps: when the quantities add up to more than the largest
\* amount the balance is exactly that amount, whatever outputs follow.
C7_BalanceSaturates ==
    IsAggCall =>
        \A g \in AggGroupsOf :
           /\ AggReported(g) >= 0
           /\ AggReported(g) <= MaxAmount
           /\ AggStart(g) + AggSum(g) > MaxAmount => AggReported(g) = MaxAmount

C7_Witness ==
    /\ call.fn = "GetAllGroupBalances"
    /\ call.prior = EmptyMap
    /\ Len(wallet) = 3
    /\ CTokenGroupInfo(wallet[1].scriptPubKey).quantity = MaxAmount
    /\ CTokenGroupInfo(wallet[3].scriptPubKey).quantity = 3
    /\ TokenSum(wallet, G1, NoDestination) > MaxAmount
    /\ MapGet(call.balances, G1) = MaxAmount

\* ========================================================================
\* Properties of the selection functions (checked under SpecSel)
\* ========================================================================
IsGreedyCall == call.fn \in {"CoinSelection", "GroupCoinSelection"} /\ call.outcome # "trap"
\* the amount the called function reads from a coin
SelAmountOf(coin) ==
    IF call.fn = "GroupCoinSelection" THEN CTokenGroupInfo(coin.scriptPubKey).quantity
    ELSE coin.nValue
RECURSIVE SelTotal(_)
SelTotal(coins) == IF Len(coins) = 0 THEN 0 ELSE SelAmountOf(coins[1]) + SelTotal(Tail(coins))
IsPrefixOf(p, s) == Len(p) <= Len(s) /\ p = SubSeq(s, 1, Len(p))

\* C8: greedy accumulation returns a total >= target whenever the pool's total is
\* >= target, having selected the prefix of the pool that ends with the first coin
\* bringing the running total to >= target; a pool whose total is below the target is
\* selected whole and the total returned is below the target.
C8_GreedyReachesTarget ==
    IsGreedyCall =>
        /\ IsPrefixOf(call.chosenCoins, wallet)
        /\ SelTotal(wallet) >= call.amt =>
              /\ call.ret >= call.amt
              /\ call.ret = SelTotal(call.chosenCoins)
              /\ \A n \in 1..(Len(call.chosenCoins) - 1) : SelTotal(SubSeq(wallet, 1, n)) < call.amt
        /\ SelTotal(wallet) < call.amt =>
              /\ call.chosenCoins = wallet
              /\ call.ret < call.amt

\* C9: NearestGreaterCoin returns true with a coin of the smallest value above the
\* target whenever some coin's value exceeds the target, whatever that value is, and
\* false with the chosen coin untouched when none does.
C9_NearestGreaterFindsSmallestAbove ==
    call.fn = "NearestGreaterCoin" =>
        LET above == {i \in 1..Len(wallet) : wallet[i].nValue > call.amt} IN
        IF above # {}
        THEN /\ call.ret
             /\ \E i \in above : call.chosenCoin = wallet[i]
             /\ \A i \in above : call.chosenCoin.nValue <= wallet[i].nValue
        ELSE ~call.ret /\ call.chosenCoin = NullCoin

\* ========================================================================
\* Properties of the wallet operations (checked under Spec)
\* ========================================================================
RECURSIVE SumValue(_)
SumValue(s) == IF Len(s) = 0 THEN 0 ELSE s[1].nValue + SumValue(Tail(s))

\* an operation has ended without being cut short by the runtime
Ended == last.op # "none" /\ last.status # "trap"
\* ... and ConstructTx got as far as handing a finished transaction to SignTransaction
Built == Ended /\ last.status \in {"ok", "signfail", "rejected"}
LogIndices(e) == {i \in 1..Len(last.log) : last.log[i].e = e}

\* C2: every committed transaction pays at least the required fee in base currency: the
\* base values of its inputs cover the base values of all its outputs plus
\* fee = GetRequiredFee(approxSize), and the available base currency ConstructTx ends up
\* with (after a fee input was added) covers needed + fee.
C2_CommittedTxPaysRequiredFee ==
    (Ended /\ last.committed) =>
        /\ SumValue(last.spent) >= SumValue(last.vout) + last.fee
        /\ last.totalAvailable >= last.totalNeeded + last.fee

\* C3: no operation partially commits: when an operation ends in an error,
\* CommitTransaction has not succeeded and the wallet's coins and kept keys are what they
\* were before the call.
C3_FailedOperationChangesNothing ==
    [][(nOps' # nOps /\ last'.status # "ok")
          => (~last'.committed /\ wallet' = wallet /\ keptKeys' = keptKeys)]_vars
C3_Witness ==
    /\ Ended /\ last.op = "melt" /\ last.status = "rejected"
    /\ LogIndices("reserve") # {} /\ LogIndices("commit") # {}
    /\ Len(last.vout) > 1

\* C4: a reserved key is kept only after CommitTransaction has succeeded, and when the
\* operation fails every key it reserved has been returned to the pool by the time the
\* error reaches the caller.
C4_KeysKeptOnlyAfterCommit ==
    Ended =>
        /\ \A i \in LogIndices("keep") :
              last.committed /\ \E j \in LogIndices("commit") : j < i
        /\ last.status # "ok" =>
              /\ LogIndices("keep") = {}
              /\ \A i \in LogIndices("reserve") :
                    /\ \E j \in LogIndices("return") : j > i /\ last.log[j].key = last.log[i].key
                    /\ last.log[i].key \in keypool
C4_Witness ==
    /\ Ended /\ last.op = "new" /\ last.status = "keypool"
    /\ LogIndices("reserve") # {} /\ LogIndices("return") # {}

\* C5: no outpoint appears twice among the inputs of one built transaction, whatever the
\* operation and the wallet.
C5_NoCoinSpentTwice ==
    Built => \A i, j \in 1..Len(last.vin) : i # j => last.vin[i] # last.vin[j]

\* C10: ConstructTx appends a base-currency change output exactly when the available
\* base currency (after any added fee input) exceeds needed + FEE_FUDGE * fee, and the
\* output's value is available - needed - fee; otherwise no base change output exists.
TokenChangeOutputs ==
    (IF last.totalGroupedAvailable > last.totalGroupedNeeded THEN 1 ELSE 0)
        + (IF last.totalXDMAvailable > last.totalXDMNeeded THEN 1 ELSE 0)
C10_BaseChangeRule ==
    Built =>
        LET fixed == last.nRequested + TokenChangeOutputs IN
        IF last.totalAvailable > last.totalNeeded + FEE_FUDGE * last.fee
        THEN /\ Len(last.vout) = fixed + 1
             /\ last.vout[fixed + 1].nValue = last.totalAvailable - last.totalNeeded - last.fee
             /\ CTokenGroupInfo(last.vout[fixed + 1].scriptPubKey).associatedGroup = NoGroup
        ELSE Len(last.vout) = fixed
C10_Witness ==
    /\ Built /\ last.committed /\ last.op = "send"
    /\ Len(last.vin) = 2
    /\ last.totalAvailable > last.totalNeeded + FEE_FUDGE * last.fee
    /\ Len(last.vout) = last.nRequested + 2

\* the tokens of group grp the outputs (or coins) of s carry, authorities aside
RECURSIVE QuantityOf(_, _)
QuantityOf(s, grp) ==
    IF Len(s) = 0 THEN 0
    ELSE LET tg == CTokenGroupInfo(s[1].scriptPubKey) IN
         (IF tg.associatedGroup = grp /\ ~isAuthority(tg) THEN tg.quantity ELSE 0)
             + QuantityOf(Tail(s), grp)
Requested == SubSeq(last.vout, 1, last.nRequested)
Change == SubSeq(last.vout, last.nRequested + 1, Len(last.vout))
ChangeOf(grp) == SelectSeq(Change, LAMBDA out : CTokenGroupInfo(out.scriptPubKey).associatedGroup = grp)
Conserves(grp) ==
    /\ QuantityOf(last.spent, grp) = QuantityOf(last.vout, grp)
    /\ Len(ChangeOf(grp)) = IF QuantityOf(last.spent, grp) > QuantityOf(Requested, grp) THEN 1 ELSE 0
    /\ QuantityOf(Change, grp) = QuantityOf(last.spent, grp) - QuantityOf(Requested, grp)

\* C6: a send conserves tokens: the quantities of the selected inputs of the group equal
\* the requested output quantities plus the change, one change output carrying exactly
\* the surplus exists exactly when the selected total exceeds the needed total, and the
\* same holds for the fee token.
C6_SendConservesTokens ==
    (Built /\ last.op = "send") => (Conserves(last.grpID) /\ Conserves(XDM))


\* ========================================================================
\* Properties of the authority search (checked under SpecSub)
\* ========================================================================
AuthorityOps == {"mint", "melt", "createauthority"}
\* the flags the operation of result r needs from the authority it spends; createauthority
\* needs the flags of the authority output it was asked for, its last requested output
RequiredFlags(r) ==
    IF r.op = "mint" THEN CTRL + MINT
    ELSE IF r.op = "melt" THEN CTRL + MELT
    ELSE controllingGroupFlags(CTokenGroupInfo(r.vout[r.nRequested].scriptPubKey))
\* coin is an authority of exactly group grp that can serve the operation
QualifiesDirectly(coin, grp, op, flags) ==
    LET tg == CTokenGroupInfo(coin.scriptPubKey) IN
    /\ tg.associatedGroup = grp
    /\ hasCapability(controllingGroupFlags(tg), flags)
    /\ op = "createauthority" => hasCapability(controllingGroupFlags(tg), CTRL + CCHILD)
QualifiesAsParent(coin, grp, flags) ==
    LET tg == CTokenGroupInfo(coin.scriptPubKey) IN
    /\ tg.associatedGroup = parentGroup(grp)
    /\ hasCapability(controllingGroupFlags(tg), CTRL + CCHILD + SUBGROUP)
    /\ hasCapability(controllingGroupFlags(tg), flags)
AuthoritiesIn(coins) == SelectSeq(coins, LAMBDA coin : isAuthority(CTokenGroupInfo(coin.scriptPubKey)))
\* an operation of AuthorityOps has found its authority and built a transaction
UsedAuthority(r) == r.op \in AuthorityOps /\ r.status \in {"ok", "signfail", "rejected"}

\* C11: every authority coin that mint, melt or createauthority spends is a coin of the
\* wallet, and it is a coin of the identifier itself that qualifies, or else - only for a
\* subgroup identifier, and only when no coin of the wallet qualifies for the subgroup
\* itself - an authority of the parent group that carries CHILD, SUBGROUP and the flags the
\* operation needs.
C11_SubgroupFallback ==
    [][(nOps' # nOps /\ UsedAuthority(last')) =>
          LET auths == AuthoritiesIn(last'.spent)
              flags == RequiredFlags(last')
              grp == last'.grpID
          IN /\ Len(auths) >= 1
             /\ \A a \in 1..Len(auths) :
                   /\ \E i \in 1..Len(wallet) : wallet[i] = auths[a]
                   /\ \/ QualifiesDirectly(auths[a], grp, last'.op, flags)
                      \/ /\ isSubgroup(grp)
                         /\ \A i \in 1..Len(wallet) :
                               ~QualifiesDirectly(wallet[i], grp, last'.op, flags)
                         /\ QualifiesAsParent(auths[a], grp, flags)]_vars
\* a createauthority on the subgroup served by the parent's authority, while the wallet
\* holds an authority of the subgroup that does not qualify
C11_Witness ==
    /\ last.op = "createauthority" /\ last.status = "ok" /\ last.grpID = Sub1
    /\ Len(AuthoritiesIn(last.spent)) = 1
    /\ CTokenGroupInfo(AuthoritiesIn(last.spent)[1].scriptPubKey).associatedGroup = G1
    /\ allowsSubgroup(CTokenGroupInfo(AuthoritiesIn(last.spent)[1].scriptPubKey))
    /\ \E i \in 1..Len(wallet) :
          LET tg == CTokenGroupInfo(wallet[i].scriptPubKey) IN
          tg.associatedGroup = Sub1 /\ isAuthority(tg)

\* the flags the operation of result r asked an authority for
AskedFlags(r) ==
    IF r.op = "mint" THEN CTRL + MINT
    ELSE IF r.op = "melt" THEN CTRL + MELT
    ELSE r.auth
\* no coin of the wallet can serve as the authority of the operation of result r
NoQualifyingAuthority(wal, r) ==
    \A i \in 1..Len(wal) :
        /\ ~QualifiesDirectly(wal[i], r.grpID, r.op, AskedFlags(r))
        /\ ~(isSubgroup(r.grpID) /\ QualifiesAsParent(wal[i], r.grpID, AskedFlags(r)))

\* C18: a well-formed mint, melt or createauthority ends with the missing-authority error
\* exactly when no coin of the wallet qualifies for the identifier itself and, for a
\* subgroup identifier, no authority of the parent group qualifies either; the error leaves
\* the wallet, the key pool and the kept keys as they were, and nothing is committed
C18_MissingAuthority ==
    [][(nOps' # nOps /\ last'.op \in AuthorityOps /\ last'.status \notin {"invalid", "trap"}) =>
          /\ last'.status = "noauthority" <=> NoQualifyingAuthority(wallet, last')
          /\ last'.status = "noauthority" =>
                /\ ~last'.committed
                /\ last'.log = << >>
                /\ wallet' = wallet /\ keypool' = keypool /\ keptKeys' = keptKeys]_vars
\* a melt on the subgroup refused although the wallet holds an authority of the parent
\* group: that one cannot melt, or lacks SUBGROUP
C18_Witness ==
    /\ last.op = "melt" /\ last.status = "noauthority" /\ last.grpID = Sub1
    /\ \E i \in 1..Len(wallet) :
          LET tg == CTokenGroupInfo(wallet[i].scriptPubKey) IN
          isAuthority(tg) /\ tg.associatedGroup = G1

\* ========================================================================
\* Properties of single operations (checked under Spec)
\* ========================================================================
AuthorityOutputs(outs) == SelectSeq(outs, LAMBDA out : isAuthority(CTokenGroupInfo(out.scriptPubKey)))
FlagsOf(out) == controllingGroupFlags(CTokenGroupInfo(out.scriptPubKey))

\* C12: dropauthorities computes authoritiesNew = authoritiesOld & ~flagsToDrop and puts
\* one replacement authority output carrying authoritiesNew into the transaction whenever
\* authoritiesNew still contains CTRL and is not empty; otherwise the transaction has no
\* authority output.
C12_DropAuthoritiesReplacement ==
    (Built /\ last.op = "dropauthorities") =>
        LET new == last.authorities_new
            replacements == AuthorityOutputs(last.vout)
        IN /\ new = BitAnd(last.authorities_former, BitNot(last.authoritiesToDrop))
           /\ IF hasCapability(new, CTRL) /\ new # NONE
              THEN Len(replacements) = 1 /\ FlagsOf(replacements[1]) = new
              ELSE Len(replacements) = 0


\* C12 as amended: the replacement authority output exists whenever authoritiesNew
\* contains CTRL and at least one flag besides it; when authoritiesNew is CTRL alone, is
\* empty or lacks CTRL the transaction has no authority output.
C12_DropAuthoritiesReplacementAmended ==
    (Built /\ last.op = "dropauthorities") =>
        LET new == last.authorities_new
            replacements == AuthorityOutputs(last.vout)
        IN /\ new = BitAnd(last.authorities_former, BitNot(last.authoritiesToDrop))
           /\ IF hasCapability(new, CTRL) /\ new # CTRL
              THEN Len(replacements) = 1 /\ FlagsOf(replacements[1]) = new
              ELSE Len(replacements) = 0
\* MELT dropped from MINT|MELT|CHILD|CTRL: the committed transaction renews MINT|CHILD|CTRL
C12_Witness ==
    /\ Built /\ last.op = "dropauthorities" /\ last.committed
    /\ last.authorities_former = CTRL + MINT + MELT + CCHILD
    /\ last.authoritiesToDrop = MELT
    /\ Len(AuthorityOutputs(last.vout)) = 1
    /\ FlagsOf(AuthorityOutputs(last.vout)[1]) = CTRL + MINT + CCHILD


TokenOutputs(outs, grp) == SelectSeq(outs, LAMBDA out : IsTokenOf(grp, out))
UntaggedIn(coins) == SelectSeq(coins, LAMBDA coin : CTokenGroupInfo(coin.scriptPubKey).associatedGroup = NoGroup)
ReservedKeys == {last.log[i].key : i \in LogIndices("reserve")}
PaysToReserved(out) ==
    LET dest == ExtractDestination(out.scriptPubKey) IN dest.type = "key" /\ dest.id \in ReservedKeys

\* C13: a mint that needs no fee token builds a transaction that spends the MINT authority
\* of the group (once) and an untagged coin for the fee; its outputs are the requested
\* token outputs, none of them a change output of the wallet, and - exactly when the spent
\* authority has CHILD - one renewed authority of the authority's group with its flags.
C13_MintBuildsRequestedOutputs ==
    (Built /\ last.op = "mint" /\ last.totalXDMNeeded = 0) =>
        LET auths == AuthoritiesIn(last.spent)
            renewed == AuthorityOutputs(last.vout)
            minted == TokenOutputs(last.vout, last.grpID)
        IN /\ Len(auths) = 1
           /\ allowsMint(tgOf(auths[1]))
           /\ Len(last.spent) = 1 + Len(UntaggedIn(last.spent))
           /\ Len(UntaggedIn(last.spent)) <= 1
           /\ Len(minted) >= 1
           /\ Len(minted) + Len(renewed) = last.nRequested
           /\ \A i \in 1..Len(minted) : ~PaysToReserved(minted[i])
           /\ TokenOutputs(last.vout, XDM) = << >>
           /\ IF allowsRenew(tgOf(auths[1]))
              THEN /\ Len(renewed) = 1
                   /\ CTokenGroupInfo(renewed[1].scriptPubKey).associatedGroup = tgOf(auths[1]).associatedGroup
                   /\ FlagsOf(renewed[1]) = controllingGroupFlags(tgOf(auths[1]))
              ELSE Len(renewed) = 0


IsUntagged(coin) == CTokenGroupInfo(coin.scriptPubKey).associatedGroup = NoGroup
\* the send that produced r is a send of two token outputs and had the tokens it needed
SentTwo(r) ==
    /\ r.op = "send" /\ r.nRequested = 2
    /\ r.status \notin {"trap", "invalid", "notokens", "noxdm"}
\* r's transaction pays the two requested outputs and returns the rest of the token coin
\* `coin` in one change output to a key reserved from `pool`
PaysTwoAndChange(r, coin, pool) ==
    LET grp == r.grpID
        q == tgOf(coin).quantity
        req == QuantityOf(SubSeq(r.vout, 1, 2), grp)
        tokens == TokenOutputs(r.vout, grp)
    IN /\ Len(tokens) = 3
       /\ tokens = SubSeq(r.vout, 1, 3)
       /\ q > req
       /\ tgOf(tokens[3]).quantity = q - req
       /\ LET dest == ExtractDestination(tokens[3].scriptPubKey) IN
          /\ dest.type = "key" /\ dest.id \in pool
          /\ \E i \in 1..Len(r.log) : r.log[i] = Event("reserve", dest.id)

\* C14: a send of two token outputs from a wallet whose only coin is a token coin of the
\* group holding more than the two quantities succeeds (the key pool holding a key,
\* signing and submission accepting), spends exactly that coin and pays the two outputs
\* plus exactly one change output of the remaining quantity to a freshly reserved key.
C14_SendFromSingleTokenCoin ==
    [][(/\ nOps' # nOps /\ SentTwo(last')
        /\ Len(wallet) = 1 /\ IsTokenOf(last'.grpID, wallet[1])
        /\ keypool # {} /\ last'.status \notin {"signfail", "rejected"})
          => /\ last'.status = "ok"
             /\ last'.spent = wallet
             /\ PaysTwoAndChange(last', wallet[1], keypool)]_vars

\* C14 as amended: the wallet holds the token coin and one untagged coin. The send fails
\* only for want of a key (the pool holding fewer than the two keys the token change and
\* the base change take), because the untagged coin is not worth more than the fee, or
\* because signing or submission refuses; otherwise it succeeds, and the transaction it
\* builds spends exactly the token coin and then the untagged coin and pays the two
\* outputs plus exactly one change output of the remaining quantity to a freshly reserved
\* key.
C14_SendFromTokenCoinAndFeeCoin ==
    [][(/\ nOps' # nOps /\ SentTwo(last')
        /\ Len(wallet) = 2
        /\ \E i \in 1..2 : IsTokenOf(last'.grpID, wallet[i]) /\ IsUntagged(wallet[3 - i]))
          => LET i == CHOOSE i \in 1..2 : IsTokenOf(last'.grpID, wallet[i])
                 coin == wallet[i]
                 feeCoin == wallet[3 - i]
             IN /\ last'.status \in {"ok", "keypool", "nofee", "signfail", "rejected"}
                /\ last'.status = "keypool" => Cardinality(keypool) < 2
                /\ last'.status = "nofee" => feeCoin.nValue <= last'.fee
                /\ last'.status \in {"ok", "signfail", "rejected"} =>
                      /\ last'.spent = << coin, feeCoin >>
                      /\ PaysTwoAndChange(last', coin, keypool)]_vars
C14_Witness ==
    /\ last.op = "send" /\ last.status = "ok" /\ last.committed /\ last.nRequested = 2
    /\ last.grpID = G1
    /\ Len(last.spent) = 2 /\ IsTokenOf(G1, last.spent[1]) /\ IsUntagged(last.spent[2])
    /\ Len(TokenOutputs(last.vout, G1)) = 3
    /\ tgOf(last.vout[3]).quantity = 1
    /\ Len(wallet) <= 2


\* C15: a committed melt of qty tokens destroys exactly qty: the quantities of the spent
\* token coins of the group less the quantities of the group's token outputs are qty, and
\* the only token output of the group is a change output of (selected total - qty), which
\* exists exactly when the selected total exceeds qty.
C15_MeltDestroysExactlyQty ==
    (Ended /\ last.op = "melt" /\ last.committed) =>
        LET selected == QuantityOf(last.spent, last.grpID)
            outs == TokenOutputs(last.vout, last.grpID)
        IN /\ selected - QuantityOf(last.vout, last.grpID) = last.qty
           /\ Len(outs) = IF selected > last.qty THEN 1 ELSE 0
           /\ Len(outs) = 1 => tgOf(outs[1]).quantity = selected - last.qty

\* the places of the log where ConstructTx called SignTransaction / CommitTransaction
SignCalls == LogIndices("sign")
CommitCalls == LogIndices("commit")

\* C17: CommitTransaction is called at most once in an operation and only after
\* SignTransaction; when SignTransaction refuses the operation ends with the signing error,
\* CommitTransaction is not called and nothing is committed; when CommitTransaction
\* refuses, the operation ends with the rejection after that single call
C17_CommitOnlyAfterSigning ==
    Ended =>
        /\ Cardinality(CommitCalls) <= 1
        /\ Cardinality(SignCalls) <= 1
        /\ \A c \in CommitCalls : \E s \in SignCalls : s < c
        /\ (SignCalls # {} /\ ~last.env.signOk) =>
               last.status = "signfail" /\ CommitCalls = {} /\ ~last.committed
        /\ last.status = "signfail" => SignCalls # {} /\ ~last.env.signOk
        /\ (CommitCalls # {} /\ ~(last.env.commitOk /\ NoDuplicateInputs(last.vin))) =>
               last.status = "rejected" /\ ~last.committed
        /\ last.committed => CommitCalls # {} /\ last.status = "ok"
\* SignTransaction refused a transaction that was ready to be signed
C17_Witness ==
    Ended /\ last.status = "signfail" /\ SignCalls # {} /\ ~last.env.signOk /\ Len(last.vin) >= 2

\* ========================================================================
\* Properties of the locking (checked under SpecLock)
\* ========================================================================
\* thread t waits for a lock another thread owns
WaitsFor(t, u) ==
    \/ NextStep(t) = "lock_main" /\ rpc.cs_main.owner = u
    \/ NextStep(t) = "lock_wallet" /\ rpc.cs_wallet.owner = u

\* C16: a thread that has read coins or chain state in an operation owns cs_main and
\* cs_wallet until the operation returns; cs_wallet is only owned by a thread that owns
\* cs_main (the locks are taken in that order), so no two threads wait for each other;
\* and all the reads of one operation observe the same snapshot
C16_LocksHeldForWholeOperation ==
    \A t \in Threads :
        /\ rpc.thr[t].reading => Holds(rpc.cs_main, t) /\ Holds(rpc.cs_wallet, t)
        /\ Holds(rpc.cs_wallet, t) => Holds(rpc.cs_main, t)
        /\ \A u \in Threads \ {t} : ~(WaitsFor(t, u) /\ WaitsFor(u, t))
        /\ Cardinality(rpc.thr[t].seen) <= 1

\* ========================================================================
\* Properties of the insufficient-funds errors (checked under Spec, SpecSend, SpecMelt)
\* ========================================================================
\* the operation of result r got as far as the check of the group's tokens
ReachedTokenCheck(r) ==
    /\ r.op \in {"send", "melt"}
    /\ r.status \notin {"trap", "invalid", "noauthority", "noxdm"}

\* C19: a send or melt that gets to the check of the group's tokens ends with the
\* insufficient-funds error exactly when the wallet's tokens of the group (authorities
\* aside) total less than the quantity needed, and the shortfall it reports is needed minus
\* that total; a send that has to pay the fee token on the side ends with the error of the
\* fee token exactly when the wallet's fee tokens total less than the fee, with that
\* shortfall; either error leaves the wallet, the key pool and the kept keys as they were
C19_InsufficientFunds ==
    [][(nOps' # nOps /\ last'.op \in {"send", "melt"} /\ last'.status \notin {"trap", "invalid", "noauthority"}) =>
          LET r == last'
              available == QuantityOf(wallet, r.grpID)
              xdmAvailable == QuantityOf(wallet, XDM)
          IN /\ ReachedTokenCheck(r) =>
                   /\ r.status = "notokens" <=> available < r.needed
                   /\ r.status = "notokens" => r.shortfall = r.needed - available
             /\ (r.op = "send" /\ r.xdmNeeded > 0) =>
                   /\ r.status = "noxdm" <=> xdmAvailable < r.xdmNeeded
                   /\ r.status = "noxdm" => r.shortfall = r.xdmNeeded - xdmAvailable
             /\ r.status \in {"notokens", "noxdm"} =>
                   /\ ~r.committed /\ r.spent = << >> /\ r.log = << >>
                   /\ wallet' = wallet /\ keypool' = keypool /\ keptKeys' = keptKeys]_vars

\* ========================================================================
\* Properties of the key reservations (checked under Spec)
\* ========================================================================
\* the output pays to the key id of a CPubKey no reservation has filled in
PaysToMissingKey(out) == ExtractDestination(out.scriptPubKey) = InvalidKeyID

\* C20: no operation makes an output that pays to a key the key pool failed to provide, and
\* an operation that ends with the key-pool error has committed nothing and kept no key
C20_NoOutputToMissingKey ==
    Ended =>
        /\ \A i \in 1..Len(last.vout) : ~PaysToMissingKey(last.vout[i])
        /\ last.status = "keypool" => ~last.committed /\ KeptBy(last.log) = {}

\* ========================================================================
\* More properties of the aggregation functions (checked under SpecAgg)
\* ========================================================================
\* C21: what an aggregation function hands back depends on the wallet's coins only, not on
\* what the caller's containers held before the call: it is what the same call gives on
\* containers that were empty
C21_AggregationResultsAreFresh ==
    /\ call.fn = "GetAllGroupBalances" => call.balances = GetAllGroupBalances(wallet, EmptyMap)
    /\ call.fn = "GetAllGroupBalancesAndAuthorities" =>
          LET fresh == GetAllGroupBalancesAndAuthorities(wallet, EmptyMap, EmptyMap) IN
          call.balances = fresh.balances /\ call.authorities = fresh.authorities


\* the coins of group grp that pass the destination filter of a call
PassesFilter(coin, grp, dest) ==
    /\ CTokenGroupInfo(coin.scriptPubKey).associatedGroup = grp
    /\ \/ dest = NoDestination
       \/ ExtractDestination(coin.scriptPubKey) # NoDestination /\ ExtractDestination(coin.scriptPubKey) = dest
FilteredCoins(grp, dest) == SelectSeq(wallet, LAMBDA coin : PassesFilter(coin, grp, dest))
AuthorityFlagBits == {CTRL, MINT, MELT, CCHILD, RESCRIPT, SUBGROUP}

\* C22: the balance of a single-group call is the sum of the quantities of the group's coins
\* that pass the destination filter (all of the group's coins when there is no filter, none
\* whose destination cannot be extracted when there is one), and a flag is in the
\* authorities handed back exactly when one of those coins carries it
C22_DestinationFilter ==
    call.fn \in {"GetGroupBalance", "GetGroupBalanceAndAuthorities"} =>
        LET coins == FilteredCoins(call.grpID, call.dest) IN
        /\ call.balance = QuantityOf(coins, call.grpID)
        /\ call.fn = "GetGroupBalanceAndAuthorities" =>
              \A f \in AuthorityFlagBits :
                  HasBit(call.authorities, f) <=>
                      \E i \in 1..Len(coins) :
                          HasBit(controllingGroupFlags(CTokenGroupInfo(coins[i].scriptPubKey)), f)
\* a filtered call on a wallet where one coin of the group passes the filter, another pays
\* elsewhere and a third has no destination to extract
C22_Witness ==
    /\ call.fn = "GetGroupBalanceAndAuthorities" /\ call.dest = KeyID(OldKey) /\ call.balance > 0
    /\ \E i, j \in 1..Len(wallet) :
          /\ CTokenGroupInfo(wallet[i].scriptPubKey).associatedGroup = call.grpID
          /\ ExtractDestination(wallet[i].scriptPubKey) = NoDestination
          /\ CTokenGroupInfo(wallet[j].scriptPubKey).associatedGroup = call.grpID
          /\ ExtractDestination(wallet[j].scriptPubKey) \notin {NoDestination, call.dest}


\* what the all-groups functions give for the wallet on empty maps
AllBalances == GetAllGroupBalances(wallet, EmptyMap)
AllBalancesAndAuthorities == GetAllGroupBalancesAndAuthorities(wallet, EmptyMap, EmptyMap)

\* C29: the aggregation functions agree: without a destination filter the balance of a
\* single-group call is the balance the other single-group function gives and the entry of
\* the group in the maps of both all-groups functions (0 when it has none), and the
\* authorities of the single-group call are the entry of the group in the authorities map
C29_AggregationVariantsAgree ==
    (call.fn \in {"GetGroupBalance", "GetGroupBalanceAndAuthorities"} /\ call.dest = NoDestination) =>
        /\ call.balance = GetGroupBalance(call.grpID, NoDestination, wallet)
        /\ call.balance = GetGroupBalanceAndAuthorities(call.grpID, NoDestination, wallet).balance
        /\ call.balance = MapGet(AllBalances, call.grpID)
        /\ call.balance = MapGet(AllBalancesAndAuthorities.balances, call.grpID)
        /\ call.fn = "GetGroupBalanceAndAuthorities" =>
              call.authorities = MapGet(AllBalancesAndAuthorities.authorities, call.grpID)
\* an unfiltered call on a wallet whose tokens of the group exceed the largest amount and
\* that holds an authority of the group
C29_Witness ==
    /\ call.fn = "GetGroupBalanceAndAuthorities" /\ call.dest = NoDestination
    /\ call.balance = MaxAmount /\ call.authorities # NONE
    /\ Len(wallet) >= 3


\* ========================================================================
\* Properties of the authority outputs (checked under Spec)
\* ========================================================================
\* C23: the transaction token new builds has exactly one authority output; it is tagged
\* with the new identifier and the flag bits of its word are ALL; the identifier ends in the
\* type tag NONE, and the identifier findGroupId derives from the same coin for a
\* management token ends in MGT_TOKEN
C23_NewEmitsOneFullAuthority ==
    (Built /\ last.op = "new") =>
        LET auths == AuthorityOutputs(last.vout) IN
        /\ Len(auths) = 1
        /\ CTokenGroupInfo(auths[1].scriptPubKey).associatedGroup = last.grpID
        /\ BitAnd(FlagsOf(auths[1]), ALL_BITS) = ALL
        /\ Len(last.grpID) = ParentIdSize
        /\ last.grpID[ParentIdSize] = TokenGroupIdFlags_NONE
        /\ findGroupId(GetOutPoint(last.spent[1]), << >>, TokenGroupIdFlags_MGT_TOKEN, 0).grpID[ParentIdSize]
               = TokenGroupIdFlags_MGT_TOKEN
\* a committed token new with a token description and a fee in the fee token
C23_Witness ==
    /\ Built /\ last.op = "new" /\ last.committed /\ last.totalXDMNeeded > 0
    /\ \E i \in 1..Len(last.vout) : last.vout[i].scriptPubKey[1].op = "OP_RETURN"


\* ========================================================================
\* Properties of token subgroup (checked under SpecId)
\* ========================================================================
\* a single identifier: not empty and not itself a subgroup
IsSingleGroup(grp) == isUserGroup(grp) /\ ~isSubgroup(grp)

\* C24: token subgroup ends with the invalid-parameter error exactly when the parent is not
\* a single identifier or the postfix has no bytes; otherwise it hands back the parent's
\* bytes followed by the bytes of the postfix
C24_SubgroupOfSingleParent ==
    call.fn = "subgroup" =>
        /\ call.status = "invalid" <=>
               (~IsSingleGroup(call.grpID) \/ Len(PostfixBytes(call.postfix)) = 0)
        /\ call.status = "ok" =>
               /\ call.subgrpID = call.grpID \o PostfixBytes(call.postfix)
               /\ parentGroup(call.subgrpID) = call.grpID


\* ========================================================================
\* Properties of GetScriptForDestination (checked under SpecScript)
\* ========================================================================
UntaggedTemplate(dest) == IF dest.type = "key" THEN P2PKH(dest) ELSE P2SH(dest)

ChangeDest(i) == ExtractDestination(Change[i].scriptPubKey)

\* C26: the change outputs of a built transaction (token change, fee-token change,
\* base-currency change) pay to keys reserved during the operation, no two of them to the
\* same key
C26_ChangeKeysPairwiseDistinct ==
    Built =>
        /\ \A i \in 1..Len(Change) : PaysToReserved(Change[i])
        /\ \A i, j \in 1..Len(Change) : i # j => ChangeDest(i) # ChangeDest(j)


\* ========================================================================
\* Properties of createauthority (checked under SpecSub)
\* ========================================================================
IsSubsetOfFlags(a, b) == BitAnd(a, b) = a

\* C27: a createauthority that builds a transaction spends one authority coin, which has
\* CHILD and, when it is a coin of the parent of the requested subgroup, SUBGROUP; the new
\* authority output is of the requested group and its flags are among the spent coin's;
\* the renewed authority output is of the spent coin's group and carries the spent coin's
\* flags
C27_CreateAuthorityNeverEscalates ==
    (UsedAuthority(last) /\ last.op = "createauthority") =>
        LET spent == AuthoritiesIn(last.spent)
            old == CTokenGroupInfo(spent[1].scriptPubKey)
            renewed == CTokenGroupInfo(last.vout[1].scriptPubKey)
            new == CTokenGroupInfo(last.vout[2].scriptPubKey)
        IN /\ Len(spent) = 1
           /\ allowsRenew(old)
           /\ old.associatedGroup # last.grpID =>
                  /\ isSubgroup(last.grpID)
                  /\ old.associatedGroup = parentGroup(last.grpID)
                  /\ allowsSubgroup(old)
           /\ last.nRequested = 2
           /\ Len(AuthorityOutputs(last.vout)) = 2
           /\ new.associatedGroup = last.grpID
           /\ isAuthority(new)
           /\ IsSubsetOfFlags(controllingGroupFlags(new), controllingGroupFlags(old))
           /\ renewed.associatedGroup = old.associatedGroup
           /\ controllingGroupFlags(renewed) = BitAnd(controllingGroupFlags(old), ALL_BITS)
C27_Witness ==
    /\ last.op = "createauthority" /\ last.status = "ok" /\ last.committed
    /\ last.grpID = Sub1
    /\ CTokenGroupInfo(AuthoritiesIn(last.spent)[1].scriptPubKey).associatedGroup = G1
    /\ controllingGroupFlags(CTokenGroupInfo(last.vout[2].scriptPubKey)) = CTRL + MELT


\* ========================================================================
\* Properties of dropauthorities (checked under Spec)
\* ========================================================================
\* C28: a dropauthorities that builds a transaction spends, as the coin named by txid and
\* vout, an authority output of the group of the command; every authority output of the
\* transaction is of that coin's group and its flags are among the coin's
C28_DropAuthoritiesOfNamedGroup ==
    (Built /\ last.op = "dropauthorities") =>
        LET coin == CTokenGroupInfo(last.spent[1].scriptPubKey)
            auths == AuthorityOutputs(last.vout)
        IN /\ isAuthority(coin)
           /\ coin.associatedGroup = last.grpID
           /\ \A i \in 1..Len(auths) :
                 LET new == CTokenGroupInfo(auths[i].scriptPubKey) IN
                 /\ new.associatedGroup = coin.associatedGroup
                 /\ IsSubsetOfFlags(controllingGroupFlags(new), controllingGroupFlags(coin))


\* ========================================================================
\* More properties of the selection functions (checked under SpecSel)
\* ========================================================================
\* C30: the selection of CoinSelection and GroupCoinSelection is the shortest prefix of the
\* pool whose total reaches the target (the whole pool when none does): no shorter prefix
\* reaches it, so a target an empty selection already meets selects no coin
C30_SelectsShortestPrefix ==
    IsGreedyCall =>
        /\ IsPrefixOf(call.chosenCoins, wallet)
        /\ SelTotal(call.chosenCoins) >= call.amt \/ call.chosenCoins = wallet
        /\ \A n \in 0..(Len(call.chosenCoins) - 1) : SelTotal(SubSeq(wallet, 1, n)) < call.amt
        /\ call.amt <= 0 => call.chosenCoins = << >>

====
